---- MODULE Spec2Model ----
(***************************************************************************)
(* The pendulum-period scripts of the repository as one state machine.     *)
(*                                                                         *)
(* Five scripts compute the same quantities with different code:           *)
(*   "gpt5"   Simple Physics Problem/gpt5highthinkingtest/                 *)
(*            generate_pendulum_analysis.py  (clamped Simpson quadrature)  *)
(*   "gemini" gemini2.5prothinkingtest/pendulum_analysis.py                *)
(*            (clamped Simpson quadrature, numpy slices)                   *)
(*   "glm"    glm4.6thinkingtest/pendulum_analysis.py                      *)
(*            (Simpson quadrature, endpoint forced to 0, no validation)    *)
(*   "kimi"   kimik2thinkingtest/pendulum.py                               *)
(*            (elliptic substitution, Simpson quadrature)                  *)
(*   "sonnet" sonnet4.5thinkingtest/pendulum_analysis.py                   *)
(*            (elliptic substitution, arithmetic-geometric mean)           *)
(*                                                                         *)
(* Floating-point numbers are modelled as binary fixed-point numbers with  *)
(* 16 fractional bits (one unit is 2^-16); every multiplication, division  *)
(* and square root truncates to that resolution, so a conversion and its   *)
(* inverse do not cancel.  Angles in degrees are held in thousandths of a  *)
(* degree.                                                                 *)
(***************************************************************************)
EXTENDS Integers, Sequences, FiniteSets, TLC

(***************************************************************************)
(* Fixed-point arithmetic                                                  *)
(***************************************************************************)

\* one unit of a fixed-point number is 1/ONE
ONE == 256 * 256

\* the base of the two limbs a multiplication is split into
LIMB == 256

\* one degree, in the unit degrees are held in (thousandths)
DEG == 1000

Abs(x) == IF x < 0 THEN -x ELSE x

Sgn(x) == IF x < 0 THEN -1 ELSE 1

Max2(x, y) == IF x >= y THEN x ELSE y

\* floor(a*b/ONE) for a, b >= 0, without a product above 2^31
MulHi(a, b) ==
    LET a1 == a \div LIMB
        a0 == a % LIMB
        b1 == b \div LIMB
        b0 == b % LIMB
        mid == a1 * b0 + a0 * b1 + ((a0 * b0) \div LIMB)
    IN  a1 * b1 + (mid \div LIMB)

\* (a*b) mod ONE for a, b >= 0
MulLo(a, b) ==
    LET a1 == a \div LIMB
        a0 == a % LIMB
        b1 == b \div LIMB
        b0 == b % LIMB
        mid == a1 * b0 + a0 * b1 + ((a0 * b0) \div LIMB)
    IN  (mid % LIMB) * LIMB + ((a0 * b0) % LIMB)

\* x * y of two fixed-point numbers, truncated toward zero
FMul(x, y) == Sgn(x) * Sgn(y) * MulHi(Abs(x), Abs(y))

\* floor(r * 2^(4*k) / b) for 0 <= r < b, one hexadecimal digit at a time
RECURSIVE LongDiv(_, _, _)
LongDiv(r, b, k) ==
    IF k = 0 THEN 0
    ELSE LET q == (r * 16) \div b
             rest == (r * 16) % b
         IN  q * (2 ^ (4 * (k - 1))) + LongDiv(rest, b, k - 1)

\* x / y of two fixed-point numbers, truncated toward zero (y # 0)
FDiv(x, y) ==
    LET a == Abs(x)
        b == Abs(y)
    IN  Sgn(x) * Sgn(y) * ((a \div b) * ONE + LongDiv(a % b, b, 4))

\* floor(sqrt(n)) of an integer n >= 0, by bisection on [lo, hi)
RECURSIVE ISqrtBetween(_, _, _)
ISqrtBetween(n, lo, hi) ==
    IF hi - lo <= 1 THEN lo
    ELSE LET m == (lo + hi) \div 2
         IN  IF m * m <= n THEN ISqrtBetween(n, m, hi)
                           ELSE ISqrtBetween(n, lo, m)

ISqrt(n) == ISqrtBetween(n, 0, 46341)

\* y*y <= x*ONE, compared limb by limb
SquareAtMost(y, x) ==
    \/ MulHi(y, y) < x
    \/ MulHi(y, y) = x /\ MulLo(y, y) = 0

\* the largest y of y0 .. y0+15 with y*y <= x*ONE
RECURSIVE RefineSqrt(_, _, _)
RefineSqrt(x, y, k) ==
    IF k = 0 \/ ~SquareAtMost(y + 1, x) THEN y
    ELSE RefineSqrt(x, y + 1, k - 1)

\* sqrt(x) of a fixed-point number x >= 0: floor(sqrt(x * ONE))
FSqrt(x) ==
    IF x < 32768 THEN ISqrt(x * ONE)
    ELSE RefineSqrt(x, 16 * ISqrt(x * 256), 15)

\* floor(a*b/c) for a, b >= 0, c > 0 by doubling: <<quotient, remainder>>
RECURSIVE MulDivQR(_, _, _)
MulDivQR(a, b, c) ==
    IF b = 0 THEN <<0, 0>>
    ELSE LET half == MulDivQR(a, b \div 2, c)
             q2 == 2 * half[1] + ((2 * half[2]) \div c)
             r2 == (2 * half[2]) % c
         IN  IF b % 2 = 0 THEN <<q2, r2>>
             ELSE <<q2 + (a \div c) + ((r2 + (a % c)) \div c), (r2 + (a % c)) % c>>

MulDiv(a, b, c) == Sgn(a) * Sgn(b) * MulDivQR(Abs(a), Abs(b), c)[1]

\* pi, as the even number of units nearest to it (pi/2 and 2*pi stay exact)
PI == 205888

\* cos(x), x a fixed-point number of radians, |x| <= 2: Taylor series to x^14
FCos(x) ==
    LET x2 == FMul(x, x)
        t7 == ONE - (x2 \div 182)
        t6 == ONE - (FMul(x2, t7) \div 132)
        t5 == ONE - (FMul(x2, t6) \div 90)
        t4 == ONE - (FMul(x2, t5) \div 56)
        t3 == ONE - (FMul(x2, t4) \div 30)
        t2 == ONE - (FMul(x2, t3) \div 12)
    IN  ONE - (FMul(x2, t2) \div 2)

\* sin(x), x a fixed-point number of radians, |x| <= 2: Taylor series to x^13
FSin(x) ==
    LET x2 == FMul(x, x)
        t6 == ONE - (x2 \div 156)
        t5 == ONE - (FMul(x2, t6) \div 110)
        t4 == ONE - (FMul(x2, t5) \div 72)
        t3 == ONE - (FMul(x2, t4) \div 42)
        t2 == ONE - (FMul(x2, t3) \div 20)
        t1 == ONE - (FMul(x2, t2) \div 6)
    IN  FMul(x, t1)

\* degrees (thousandths) to radians: x * (pi/180)
radians(d) == MulDiv(d, PI, 180 * DEG)

\* radians to degrees (thousandths): x * (180/pi)
rad2deg(r) == MulDiv(r, 180 * DEG, PI)

(***************************************************************************)
(* The fixed inputs of the scripts                                         *)
(***************************************************************************)

Scripts == {"gpt5", "gemini", "glm", "kimi", "sonnet"}

\* L = 1.0
L == 65536

\* g = 9.80665
g == 642689

\* epsilon = 1e-10: the smallest positive number of the resolution
epsilon == 1

\* the value of a computation that left the finite numbers (inf or nan)
NaN == -2147483647

\* the least integral_steps sonnet accepts
MIN_STEPS_SONNET == 100

\* the values integral_steps, sample_count and the two angles are drawn from:
\* an odd and an even step count, and for sonnet one it accepts
StepChoices(s) == IF s = "sonnet" THEN {3, 4, MIN_STEPS_SONNET} ELSE {3, 4}

\* the largest sample_count explored
MAX_COUNT == 7

\* a count below 4, the least count accepted, and one the sonnet report can index
CountChoices == {3, 4, MAX_COUNT}

\* theta_low_deg: 0, an angle where the clamped quadrature falls short of T0,
\* and two angles where it overshoots
LowChoices == {0, 2 * DEG, 5 * DEG, 60 * DEG}

\* theta_high_deg: up to the right angle
HighChoices == {5 * DEG, 60 * DEG, 90 * DEG}

(***************************************************************************)
(* Input validation                                                        *)
(***************************************************************************)

\* gpt5: validate_inputs; the name of the exception raised, or "ok"
validate_inputs_gpt5(steps, count, low, high) ==
    IF steps % 2 # 0 THEN "ValueError"
    ELSE IF ~(0 < low /\ low < high /\ high <= 89999) THEN "ValueError"
    ELSE IF count < 4 THEN "ValueError"
    ELSE "ok"

\* gemini: validate_inputs
validate_inputs_gemini(steps, count, low, high) ==
    IF steps % 2 # 0 THEN "ValueError"
    ELSE IF ~(0 < low /\ low < high /\ high < 90 * DEG) THEN "ValueError"
    ELSE IF count < 4 THEN "ValueError"
    ELSE "ok"

\* sonnet: validate_inputs (assert statements)
validate_inputs_sonnet(steps, count, low, high) ==
    IF ~(steps % 2 = 0) THEN "AssertionError"
    ELSE IF ~(low < high) THEN "AssertionError"
    ELSE IF ~(count >= 4) THEN "AssertionError"
    ELSE IF ~(steps >= MIN_STEPS_SONNET) THEN "AssertionError"
    ELSE "ok"

\* kimi: the checks at the head of main
validate_inputs_kimi(steps, count, low, high) ==
    IF steps % 2 # 0 THEN "ValueError"
    ELSE IF low <= 0 \/ high >= 90 * DEG THEN "ValueError"
    ELSE IF count < 4 THEN "ValueError"
    ELSE "ok"

\* the validation a script runs; glm has none
validate_inputs(s, steps, count, low, high) ==
    CASE s = "gpt5" -> validate_inputs_gpt5(steps, count, low, high)
      [] s = "gemini" -> validate_inputs_gemini(steps, count, low, high)
      [] s = "sonnet" -> validate_inputs_sonnet(steps, count, low, high)
      [] s = "kimi" -> validate_inputs_kimi(steps, count, low, high)

(***************************************************************************)
(* The angle grid                                                          *)
(***************************************************************************)

\* a / n of a number a by a count n # 0, truncated toward zero
IDiv(a, n) == Sgn(a) * Sgn(n) * (Abs(a) \div Abs(n))

\* gpt5: linspace
linspace(a, b, n) ==
    IF n = 1 THEN <<a>>
    ELSE LET step == IDiv(b - a, n - 1)
         IN  [k \in 1..n |-> a + (k - 1) * step]

\* numpy.linspace: the last element is set to the endpoint
np_linspace(a, b, n) ==
    IF n = 1 THEN <<a>>
    ELSE LET step == IDiv(b - a, n - 1)
         IN  [k \in 1..n |-> IF k = n THEN b ELSE (k - 1) * step + a]

\* the grid in degrees, as each script first obtains it
GridDeg(s, low, high, n) ==
    CASE s = "gpt5" -> linspace(low, high, n)
      [] s = "gemini" ->
            LET rad == np_linspace(radians(low), radians(high), n)
            IN  [k \in 1..n |-> rad2deg(rad[k])]
      [] OTHER -> np_linspace(low, high, n)

\* the grid in radians
GridRad(s, low, high, n) ==
    CASE s = "gemini" -> np_linspace(radians(low), radians(high), n)
      [] OTHER -> LET deg == GridDeg(s, low, high, n)
                  IN  [k \in 1..n |-> radians(deg[k])]

(***************************************************************************)
(* Closed-form estimators                                                  *)
(***************************************************************************)

\* sqrt(L / g)
SqrtLG == FSqrt(FDiv(L, g))

\* T0 = 2 * pi * sqrt(L / g)
compute_T0 == FMul(2 * PI, SqrtLG)

\* T_series = T0 * (1 + theta0**2 / 16 + 11 * theta0**4 / 3072)
compute_T_series(t0, theta0) ==
    LET sq == FMul(theta0, theta0)
        qu == FMul(sq, sq)
    IN  FMul(t0, ONE + (sq \div 16) + ((11 * qu) \div 3072))

(***************************************************************************)
(* The exact-period evaluators                                             *)
(***************************************************************************)

\* f[lo] + ... + f[hi], by halves
RECURSIVE SumRange(_, _, _)
SumRange(f, lo, hi) ==
    IF lo > hi THEN 0
    ELSE IF lo = hi THEN f[lo]
    ELSE LET m == (lo + hi) \div 2
         IN  SumRange(f, lo, m) + SumRange(f, m + 1, hi)

\* f[1] + ... + f[k]
SumTo(f, k) == SumRange(f, 1, k)

\* interior weights the wrong way round: 2 on the odd nodes, 4 on the even ones
WeightSwapped(i) == IF i % 2 = 1 THEN 2 ELSE 4

\* the Simpson weight of an interior node
Weight(i) == IF i % 2 = 1 THEN 4 ELSE 2

\* the points at which a Simpson rule with n steps on [a, b] calls its integrand
Nodes(a, b, n) == {a + j * IDiv(b - a, n) : j \in 0..n} \cup {a, b}

\* gpt5: simpson_integral; the callable f is a function on the nodes
simpson_integral(f, a, b, n) ==
    LET h == IDiv(b - a, n)
        terms == [j \in 1..(n - 1) |-> Weight(j) * f[a + j * h]]
        s == f[a] + f[b] + SumTo(terms, n - 1)
    IN  FMul(s, h) \div 3

\* gpt5: the integrand f of compute_true_period
clamped_integrand(theta, c0) ==
    FDiv(ONE, FSqrt(2 * Max2(FCos(theta) - c0, epsilon)))

\* gpt5: compute_true_period
compute_true_period(theta0, n) ==
    LET c0 == FCos(theta0)
        f == [theta \in Nodes(0, theta0, n) |-> clamped_integrand(theta, c0)]
        integral == simpson_integral(f, 0, theta0, n)
    IN  FMul(4 * SqrtLG, integral)

\* gemini: dx / 3 * np.sum(y[0:-1:2] + 4 * y[1::2] + y[2::2]) (n even; the three
\* slices then have n/2 elements each)
slice_sum(y, dx, n) ==
    LET groups == [j \in 1..(n \div 2) |-> y[2 * j - 1] + 4 * y[2 * j] + y[2 * j + 1]]
    IN  FMul(dx \div 3, SumTo(groups, n \div 2))

\* gemini: compute_t_num
compute_t_num(theta0_rad, n) ==
    LET c0 == FCos(theta0_rad)
        dx == IDiv(theta0_rad - 0, n)
        x == np_linspace(0, theta0_rad, n + 1)
        y == [i \in 1..(n + 1) |-> clamped_integrand(x[i], c0)]
        integral == slice_sum(y, dx, n)
    IN  FMul(4 * SqrtLG, integral)

\* glm: the value f_theta of node i, NaN when 1/sqrt(arg) is not finite
glm_node(i, h, cos_theta0, steps) ==
    LET arg == 2 * (FCos(i * h) - cos_theta0)
    IN  IF i = steps THEN 0
        ELSE IF arg <= 0 THEN NaN
        ELSE FDiv(ONE, FSqrt(arg))

\* glm: the weight of node i
glm_weight(i, steps) ==
    IF i = 0 \/ i = steps THEN 1 ELSE IF i % 2 = 1 THEN 4 ELSE 2

\* glm: integral += weight * f_theta over the nodes, then integral *= h / 3.0
weighted_sum(f, h, steps) ==
    LET terms == [k \in 1..(steps + 1) |-> glm_weight(k - 1, steps) * f[k]]
    IN  FMul(SumTo(terms, steps + 1), h \div 3)

\* glm: compute_integral_simpson
compute_integral_simpson(theta0, steps) ==
    LET h == IDiv(theta0, steps)
        cos_theta0 == FCos(theta0)
        f == [k \in 1..(steps + 1) |-> glm_node(k - 1, h, cos_theta0, steps)]
    IN  IF \E k \in 1..(steps + 1) : f[k] = NaN THEN NaN
        ELSE weighted_sum(f, h, steps)

\* glm: T_num[i] = 4 * sqrt(L / g) * integral
glm_T_num(theta0, steps) ==
    LET integral == compute_integral_simpson(theta0, steps)
    IN  IF integral = NaN THEN NaN ELSE FMul(4 * SqrtLG, integral)

\* the radicand with the modulus doubled: 1 - (2 * k * sin(phi))**2
radicand_doubled(phi, k) ==
    LET ks == 2 * FMul(k, FSin(phi))
    IN  ONE - FMul(ks, ks)

\* kimi: integrand, the argument of its square root: 1 - (k * sin(phi))**2
radicand(phi, k) ==
    LET ks == FMul(k, FSin(phi))
    IN  ONE - FMul(ks, ks)

\* kimi: integrand
integrand(phi, k) == FDiv(ONE, FSqrt(radicand(phi, k)))

\* kimi: simpson_integration (n even: the caller has checked it)
simpson_integration(f, a, b, n) ==
    LET h == IDiv(b - a, n)
        odd == [j \in 1..(n \div 2) |-> 4 * f[a + (2 * j - 1) * h]]
        even == [j \in 1..((n - 1) \div 2) |-> 2 * f[a + (2 * j) * h]]
        S == f[a] + f[b] + SumTo(odd, n \div 2) + SumTo(even, (n - 1) \div 2)
    IN  FMul(S, h) \div 3

\* kimi: compute_T_num
compute_T_num(theta0, n) ==
    IF theta0 = 0 THEN FMul(2 * PI, SqrtLG)
    ELSE LET k == FSin(theta0 \div 2)
             f == [phi \in Nodes(0, PI \div 2, n) |-> integrand(phi, k)]
             integral == simpson_integration(f, 0, PI \div 2, n)
         IN  FMul(4 * SqrtLG, integral)

\* the indices of the Python slice [start:stop:step] of an array
py_slice(start, stop, step) ==
    {k \in start..(stop - 1) : (k - start) % step = 0}

\* the weights array with 2 on the slice [2::2], which reaches the last node
simpson_weights_open_slice(n) ==
    LET ones == [k \in 0..n |-> 1]
        fours == [k \in 0..n |-> IF k \in py_slice(1, n, 2) THEN 4 ELSE ones[k]]
    IN  [k \in 0..n |-> IF k \in py_slice(2, n + 1, 2) THEN 2 ELSE fours[k]]

\* sonnet: the weights array of simpson_integrate, indexed from 0: ones, then 4 on
\* the slice [1:-1:2], then 2 on the slice [2:-1:2]
simpson_weights(n) ==
    LET ones == [k \in 0..n |-> 1]
        fours == [k \in 0..n |-> IF k \in py_slice(1, n, 2) THEN 4 ELSE ones[k]]
    IN  [k \in 0..n |-> IF k \in py_slice(2, n, 2) THEN 2 ELSE fours[k]]

\* sonnet: simpson_integrate (n even: it raises otherwise)
simpson_integrate(f, a, b, n) ==
    LET h == IDiv(b - a, n)
        x == np_linspace(a, b, n + 1)
        weights == simpson_weights(n)
        terms == [k \in 1..(n + 1) |-> weights[k - 1] * f[x[k]]]
    IN  FMul(h \div 3, SumTo(terms, n + 1))

\* sonnet: the iteration cap of the AGM loop
AGM_ITERATIONS == 25

\* sonnet: the convergence threshold 1e-15: the smallest positive number
AGM_TOLERANCE == 1

\* sonnet: the AGM loop of compute_T_numerical after `done` iterations;
\* <<a, b, iterations run, left by break>>
RECURSIVE agm_loop(_, _, _)
agm_loop(a, b, done) ==
    IF done = AGM_ITERATIONS THEN <<a, b, done, FALSE>>
    ELSE LET a_new == (a + b) \div 2
             b_new == FSqrt(FMul(a, b))
         IN  IF Abs(a_new - a) < AGM_TOLERANCE THEN <<a, b, done + 1, TRUE>>
             ELSE agm_loop(a_new, b_new, done + 1)

\* sonnet: compute_T_numerical
compute_T_numerical(theta0_rad) ==
    LET k == FSin(theta0_rad \div 2)
        agm == agm_loop(ONE, FSqrt(ONE - FMul(k, k)), 0)[1]
        K_k == FDiv(PI, 2 * agm)
    IN  FMul(4 * SqrtLG, K_k)

\* the unit of the AGM loop when its passes are counted: 2^-29, fine enough
\* that halving 1 down to the tolerance takes more passes than the loop allows
FINE == 2 ^ 29

\* floor(sqrt(a * b)) by Newton's iteration from y >= sqrt(a * b)
RECURSIVE NewtonSqrt(_, _, _)
NewtonSqrt(a, b, y) ==
    LET next == (y + MulDivQR(a, b, y)[1]) \div 2
    IN  IF next >= y THEN y ELSE NewtonSqrt(a, b, next)

\* a quotient q with what is left of it, r out of c, rounded to the nearest
\* unit, a tie to the even one
nearest(q, r, c) ==
    IF 2 * r > c \/ (2 * r = c /\ q % 2 = 1) THEN q + 1 ELSE q

\* sonnet: (a + b) / 2 in units of FINE, rounded as the float sum is
fine_mean(a, b) == nearest((a + b) \div 2, (a + b) % 2, 2)

\* sonnet: a * b in units of FINE, rounded as the float product is
fine_product(a, b) ==
    LET qr == MulDivQR(a, b, FINE)
    IN  nearest(qr[1], qr[2], FINE)

\* sonnet: np.sqrt(a * b) in units of FINE: the root of the rounded product,
\* rounded to the nearest unit (a root is never half way between two units)
fine_sqrt(a, b) ==
    LET p == fine_product(a, b)
    IN  IF p = 0 THEN 0
        ELSE LET above == IF 2 * Max2(a, b) < FINE THEN 2 * Max2(a, b) ELSE FINE
                 r == NewtonSqrt(p, FINE, above)
                 qr == MulDivQR(p, FINE, r + 1)
             IN  IF r < qr[1] \/ (r = qr[1] /\ qr[2] > 0) THEN r + 1 ELSE r

\* sonnet: a = 1.0, b = np.sqrt(1 - k**2) with k = np.sin(theta0_rad / 2)
agm_start(theta0_rad) ==
    LET k == FSin(theta0_rad \div 2)
    IN  [a |-> FINE,
         b |-> (FINE \div ONE) * FSqrt(ONE - FMul(k, k)),
         a_new |-> FINE,
         iterations |-> 0,
         left |-> "running"]

\* one pass with the two means exchanged: a takes the root, b the half sum
agm_pass_swapped(st) ==
    LET a_new == fine_sqrt(st.a, st.b)
        b_new == fine_mean(st.a, st.b)
    IN  IF Abs(a_new - st.a) < AGM_TOLERANCE
        THEN [st EXCEPT !.a_new = a_new, !.iterations = st.iterations + 1,
                        !.left = "break"]
        ELSE [a |-> a_new, b |-> b_new, a_new |-> a_new,
              iterations |-> st.iterations + 1,
              left |-> IF st.iterations + 1 = AGM_ITERATIONS THEN "exhausted"
                       ELSE "running"]

\* sonnet: one pass of the AGM loop: the break leaves a and b as they were, and
\* the pass of number AGM_ITERATIONS is the last one
agm_pass(st) ==
    LET a_new == fine_mean(st.a, st.b)
        b_new == fine_sqrt(st.a, st.b)
    IN  IF Abs(a_new - st.a) < AGM_TOLERANCE
        THEN [st EXCEPT !.a_new = a_new, !.iterations = st.iterations + 1,
                        !.left = "break"]
        ELSE [a |-> a_new, b |-> b_new, a_new |-> a_new,
              iterations |-> st.iterations + 1,
              left |-> IF st.iterations + 1 = AGM_ITERATIONS THEN "exhausted"
                       ELSE "running"]

\* the exact period a script computes for one angle
TNum(s, theta0, n) ==
    CASE s = "gpt5" -> compute_true_period(theta0, n)
      [] s = "gemini" -> compute_t_num(theta0, n)
      [] s = "glm" -> glm_T_num(theta0, n)
      [] s = "kimi" -> compute_T_num(theta0, n)
      [] s = "sonnet" -> compute_T_numerical(theta0)

\* gpt5, gemini, glm: the integrand value the evaluator sums for node j of n
node_value(s, theta0, n, j) ==
    CASE s = "gpt5" ->
            clamped_integrand(IF j = n THEN theta0 ELSE j * IDiv(theta0, n), FCos(theta0))
      [] s = "gemini" ->
            clamped_integrand(np_linspace(0, theta0, n + 1)[j + 1], FCos(theta0))
      [] s = "glm" -> glm_node(j, IDiv(theta0, n), FCos(theta0), n)

\* the relative error taken over the approximation instead of the exact period
compute_errors_over_approx(t_approx, t_num) ==
    IF t_approx = NaN \/ t_num = NaN \/ t_num = 0 THEN NaN
    ELSE FDiv(Abs(t_approx - t_num), t_approx)

\* the relative error abs(approx - t_num) / t_num
compute_errors(t_approx, t_num) ==
    IF t_approx = NaN \/ t_num = NaN \/ t_num = 0 THEN NaN
    ELSE FDiv(Abs(t_approx - t_num), t_num)

(***************************************************************************)
(* Reductions and text formatting                                          *)
(***************************************************************************)

\* max(seq) of a non-empty sequence
RECURSIVE MaxUpTo(_, _)
MaxUpTo(seq, k) ==
    IF k = 1 THEN seq[1] ELSE Max2(MaxUpTo(seq, k - 1), seq[k])

max(seq) == MaxUpTo(seq, Len(seq))

\* list.index(v) and numpy.argmax: the first position holding v (1-based)
index(seq, v) == CHOOSE k \in 1..Len(seq) :
                    /\ seq[k] = v
                    /\ \A j \in 1..(k - 1) : seq[j] # v

\* the decimals a number of the model can have: 2^-16 has sixteen
FRACTION_DIGITS == 16

\* the first n decimals of num / den, for 0 <= num < den
RECURSIVE DecDigits(_, _, _)
DecDigits(num, den, n) ==
    IF n = 0 THEN <<>>
    ELSE <<(num * 10) \div den>> \o DecDigits((num * 10) % den, den, n - 1)

\* repr(x): the decimal number that reads back as the float x >= 0, written
\* out in full as its whole part and its decimals
float_repr(x, scale) ==
    [whole |-> x \div scale,
     frac |-> DecDigits(x % scale, scale, FRACTION_DIGITS)]

\* one unit added at decimal p of a decimal number, carried to the left up
\* to the last digit that is not 9 (place 0: the whole part)
Carry(whole, frac, p) ==
    LET stops == {q \in 1..p : frac[q] # 9 /\ \A j \in (q + 1)..p : frac[j] = 9}
        c == IF stops = {} THEN 0 ELSE CHOOSE q \in stops : TRUE
    IN  [whole |-> IF c = 0 THEN whole + 1 ELSE whole,
         frac |-> [j \in 1..Len(frac) |->
                     IF j < c \/ j > p THEN frac[j]
                     ELSE IF j = c THEN frac[j] + 1 ELSE 0]]

\* a decimal number with the decimals after the first nd set to 0
Cut(d, nd) ==
    [whole |-> d.whole,
     frac |-> [j \in 1..FRACTION_DIGITS |-> IF j <= nd THEN d.frac[j] ELSE 0]]

\* rounding to nd decimals goes up: more than half a unit is dropped, or just
\* half and the digit kept is odd
RoundsUp(d, nd) ==
    LET next == d.frac[nd + 1]
        more == \E j \in (nd + 2)..FRACTION_DIGITS : d.frac[j] # 0
        kept == IF nd = 0 THEN d.whole % 10 ELSE d.frac[nd]
    IN  next > 5 \/ (next = 5 /\ (more \/ kept % 2 = 1))

\* a decimal number rounded to nd decimals
RoundDec(d, nd) ==
    IF nd >= FRACTION_DIGITS THEN d
    ELSE IF RoundsUp(d, nd) THEN Carry(d.whole, Cut(d, nd).frac, nd)
    ELSE Cut(d, nd)

\* round(x, nd) of a float x >= 0: the number with nd decimals nearest to it
round_nd(x, scale, nd) ==
    IF x = NaN THEN NaN ELSE RoundDec(float_repr(x, scale), nd)

\* the text of a decimal number with nd decimals
FormatDec(d, nd) ==
    LET r == RoundDec(d, nd)
    IN  [decimals |-> nd, whole |-> r.whole, frac |-> SubSeq(r.frac, 1, nd)]

\* f"{x:.<nd>f}" of a float x >= 0
format_f(x, scale, nd) == FormatDec(float_repr(x, scale), nd)

\* the place of the first digit of a decimal number below 10 that is not 0:
\* 0 for the whole part, p for decimal p
FirstDigit(d) ==
    IF d.whole > 0 \/ \A j \in 1..FRACTION_DIGITS : d.frac[j] = 0 THEN 0
    ELSE CHOOSE p \in 1..FRACTION_DIGITS :
            d.frac[p] # 0 /\ \A j \in 1..(p - 1) : d.frac[j] = 0

\* the digit at place j of a decimal number below 10
DigitAt(d, j) ==
    IF j = 0 THEN d.whole ELSE IF j <= FRACTION_DIGITS THEN d.frac[j] ELSE 0

\* the text of a decimal number below 10 with nd + 1 significant digits
SciDec(d, nd) ==
    LET r == RoundDec(d, FirstDigit(d) + nd)
        q == FirstDigit(r)
    IN  [digits |-> nd + 1, exponent |-> 0 - q,
         mantissa |-> [j \in 1..(nd + 1) |-> DigitAt(r, q + j - 1)]]

\* f"{x:.<nd>e}" of a float 0 <= x < 10
format_e(x, nd) == SciDec(float_repr(x, ONE), nd)

\* a decimal number times 100, as the % format takes it
PercentDec(d) ==
    [whole |-> d.whole * 100 + d.frac[1] * 10 + d.frac[2],
     frac |-> [j \in 1..FRACTION_DIGITS |-> DigitAt(d, j + 2)]]

(***************************************************************************)
(* The state of a run                                                      *)
(***************************************************************************)

VARIABLES
    script,          \* the script that runs
    integral_steps,  \* the four inputs the scripts fix at module level
    sample_count,
    theta_low_deg,
    theta_high_deg,
    pc,              \* the position in main: the index of the next step
    error,           \* the exception that ended the run, or "none"
    i,               \* the angles the current per-angle loop has handled
    theta_deg,       \* the grid in degrees and in radians
    theta_rad,
    T0,              \* the small-angle period and its broadcast
    T0_array,
    T_series,
    T_num,
    err_small,
    err_series,
    verification,    \* kimi: the outcome of the two checks it prints
    summary,         \* the summary as computed
    data_json,       \* the data file as written
    report_md,       \* the report as written
    summary_out,     \* the summary as written (gpt5: printed)
    run,             \* 1 for the first call of main, 2 for the second
    first,           \* what the first call left, kept for the second
    trace,           \* the steps the current call has taken
    order,           \* angles estimated out of turn: their indices, as they were stored
    inflight,        \* angles estimated out of turn: the values not yet stored
    agm_state,       \* sonnet: the AGM loop followed pass by pass: a, b, the passes run
    entered,         \* the Simpson routine a run has entered: its step count and width
    portfolio,       \* portfolio analyzer: the list "portfolio" of portfolio_input.json
    fetch_log,       \* PortfolioDataFetcher.fetch_log
    results,         \* fetch_portfolio_data: its dict results
    fetcher,         \* fetch_portfolio_data: the item it is at, the calls it has made
    targets,         \* portfolio analyzer: the dict "targets" of portfolio_input.json
    validation_result,  \* validate_portfolio: the dict it returns
    current_portfolio,  \* generate_optimization_proposals: metrics['current_portfolio']
    proposals,          \* generate_optimization_proposals: the dict it returns
    integrand_c         \* the value of the constant integrand a Simpson routine is given

vars == <<script, integral_steps, sample_count, theta_low_deg, theta_high_deg,
          pc, error, i, theta_deg, theta_rad, T0, T0_array, T_series, T_num,
          err_small, err_series, verification, summary, data_json, report_md,
          summary_out, run, first, trace, order, inflight,
          agm_state, entered, portfolio, fetch_log, results, fetcher, targets,
          validation_result, current_portfolio, proposals, integrand_c>>

config == <<script, integral_steps, sample_count, theta_low_deg, theta_high_deg>>

\* the estimates in flight and the loop followed pass by pass: main takes the
\* angles one by one and calls its evaluator in one piece, and has neither
pool == <<order, inflight, agm_state>>

\* what is followed apart from the steps of main
others == <<entered, portfolio, fetch_log, results, fetcher, targets,
           validation_result, current_portfolio, proposals, integrand_c>>

\* the state of the analyzer
analyzer_vars == <<current_portfolio, proposals>>

\* the state of the validator
validator_vars == <<targets, validation_result>>

\* the state of a call of main
main_vars == <<pc, error, i, theta_deg, theta_rad, T0, T0_array, T_series, T_num,
               err_small, err_series, verification, summary, data_json, report_md,
               summary_out, run, first, trace>>

\* the statements of main, in the order each script runs them
Program(s) ==
    CASE s = "gpt5" ->
            <<"validate", "grid", "t0", "series", "num", "errors",
              "write_data", "write_report", "summary", "write_summary">>
      [] s = "gemini" ->
            <<"validate", "grid", "t0", "series", "num", "errors", "summary",
              "write_data", "write_summary", "write_report">>
      [] s = "sonnet" ->
            <<"validate", "grid", "t0", "loop", "errors", "write_data",
              "write_report", "summary", "write_summary">>
      [] s = "kimi" ->
            <<"validate", "grid", "t0", "verify", "loop", "summary",
              "write_data", "write_summary">>
      [] s = "glm" ->
            <<"grid", "t0", "series", "num", "errors", "write_data">>

\* nothing written, computed or kept yet
Nothing == [written |-> FALSE]

\* nothing is followed apart from the steps of main
OthersIdle ==
    /\ entered = Nothing
    /\ portfolio = <<>>
    /\ fetch_log = <<>>
    /\ results = Nothing
    /\ fetcher = Nothing
    /\ targets = Nothing
    /\ validation_result = Nothing
    /\ current_portfolio = Nothing
    /\ proposals = Nothing
    /\ integrand_c = Nothing

\* no pendulum script runs
MainIdle ==
    /\ script = "none"
    /\ integral_steps = 0
    /\ sample_count = 0
    /\ theta_low_deg = 0
    /\ theta_high_deg = 0
    /\ pc = 1
    /\ error = "none"
    /\ i = 0
    /\ theta_deg = <<>>
    /\ theta_rad = <<>>
    /\ T0 = 0
    /\ T0_array = <<>>
    /\ T_series = <<>>
    /\ T_num = <<>>
    /\ err_small = <<>>
    /\ err_series = <<>>
    /\ verification = Nothing
    /\ summary = Nothing
    /\ data_json = Nothing
    /\ report_md = Nothing
    /\ summary_out = Nothing
    /\ run = 1
    /\ first = Nothing
    /\ trace = <<>>
    /\ order = <<>>
    /\ inflight = <<>>
    /\ agm_state = Nothing

\* main is at the statement `name`
At(name) ==
    /\ error = "none"
    /\ pc <= Len(Program(script))
    /\ Program(script)[pc] = name

\* main has returned
Done == error = "none" /\ pc = Len(Program(script)) + 1

\* main was left by an exception
Failed == error # "none"

Init ==
    /\ script \in Scripts
    /\ integral_steps \in StepChoices(script)
    /\ sample_count \in CountChoices
    /\ theta_low_deg \in LowChoices
    /\ theta_high_deg \in HighChoices
    /\ pc = 1
    /\ error = "none"
    /\ i = 0
    /\ theta_deg = <<>>
    /\ theta_rad = <<>>
    /\ T0 = 0
    /\ T0_array = <<>>
    /\ T_series = <<>>
    /\ T_num = <<>>
    /\ err_small = <<>>
    /\ err_series = <<>>
    /\ verification = Nothing
    /\ summary = Nothing
    /\ data_json = Nothing
    /\ report_md = Nothing
    /\ summary_out = Nothing
    /\ run = 1
    /\ first = Nothing
    /\ trace = <<>>
    /\ order = <<>>
    /\ inflight = <<>>
    /\ agm_state = Nothing
    /\ OthersIdle

(***************************************************************************)
(* The steps of main                                                       *)
(***************************************************************************)

\* the step at pc has run to its end
Advance(name) ==
    /\ pc' = pc + 1
    /\ trace' = Append(trace, name)

\* validate_inputs() (kimi: the checks at the head of main)
Validate ==
    /\ At("validate")
    /\ LET r == validate_inputs(script, integral_steps, sample_count,
                                theta_low_deg, theta_high_deg)
       IN  /\ error' = IF r = "ok" THEN "none" ELSE r
           /\ pc' = IF r = "ok" THEN pc + 1 ELSE pc
    /\ trace' = Append(trace, "validate")
    /\ UNCHANGED <<config, pool, others, i, theta_deg, theta_rad, T0, T0_array, T_series, T_num,
                   err_small, err_series, verification, summary, data_json,
                   report_md, summary_out, run, first>>

\* the theta grid in degrees and radians
GenerateGrid ==
    /\ At("grid")
    /\ theta_deg' = GridDeg(script, theta_low_deg, theta_high_deg, sample_count)
    /\ theta_rad' = GridRad(script, theta_low_deg, theta_high_deg, sample_count)
    /\ Advance("grid")
    /\ UNCHANGED <<config, pool, others, error, i, T0, T0_array, T_series, T_num, err_small,
                   err_series, verification, summary, data_json, report_md,
                   summary_out, run, first>>

\* the broadcast of T0: kimi builds it angle by angle in its loop
BroadcastT0(t0) ==
    CASE script \in {"gpt5", "gemini"} -> [k \in 1..Len(theta_rad) |-> t0]
      [] script \in {"glm", "sonnet"} -> [k \in 1..sample_count |-> t0]
      [] script = "kimi" -> T0_array

\* the small-angle period
ComputeT0 ==
    /\ At("t0")
    /\ T0' = compute_T0
    /\ T0_array' = BroadcastT0(compute_T0)
    /\ Advance("t0")
    /\ UNCHANGED <<config, pool, others, error, i, theta_deg, theta_rad, T_series, T_num,
                   err_small, err_series, verification, summary, data_json,
                   report_md, summary_out, run, first>>

\* rel_diff < 0.01
SMALL_ANGLE_LIMIT == 655

\* ratio > 1.05
RATIO_ABOVE == 68812

\* ratio < 1.10
RATIO_BELOW == 72090

\* kimi: the step count verify_small_angle is called with
VERIFY_STEPS == 100

\* kimi: verify_small_angle, the verdict it prints
verify_small_angle(t0, n) ==
    LET T_num_small == compute_T_num(radians(1 * DEG), n)
        rel_diff == FDiv(Abs(T_num_small - t0), t0)
    IN  rel_diff < SMALL_ANGLE_LIMIT

\* kimi: verify_large_angle, the verdict it prints
verify_large_angle(t0, n) ==
    LET T_num_large == compute_T_num(radians(60 * DEG), n)
        ratio == FDiv(T_num_large, t0)
    IN  ratio > RATIO_ABOVE /\ ratio < RATIO_BELOW

\* kimi: the two checks before the loop; they print and change nothing else
Verify ==
    /\ At("verify")
    /\ verification' = [small_angle_test |-> verify_small_angle(T0, VERIFY_STEPS),
                        large_angle_test |-> verify_large_angle(T0, integral_steps)]
    /\ Advance("verify")
    /\ UNCHANGED <<config, pool, others, error, i, theta_deg, theta_rad, T0, T0_array, T_series,
                   T_num, err_small, err_series, summary, data_json, report_md,
                   summary_out, run, first>>

\* gpt5, gemini, glm: T_series for the whole grid
ComputeSeries ==
    /\ At("series")
    /\ T_series' = [k \in 1..Len(theta_rad) |-> compute_T_series(T0, theta_rad[k])]
    /\ Advance("series")
    /\ UNCHANGED <<config, pool, others, error, i, theta_deg, theta_rad, T0, T0_array, T_num,
                   err_small, err_series, verification, summary, data_json,
                   report_md, summary_out, run, first>>

\* numpy.zeros(sample_count)
zeros(n) == [k \in 1..n |-> 0]

\* the list or array a per-angle loop starts from
EmptyResults == IF script \in {"glm", "sonnet"} THEN zeros(sample_count) ELSE <<>>

\* the value stored for angle k: appended to a list, assigned into an array
Store(seq, k, v) ==
    IF script \in {"glm", "sonnet"} THEN [seq EXCEPT ![k] = v] ELSE Append(seq, v)

\* a list that is not emptied before the loop: only an array is made anew
BeforeKept(seq, k) ==
    IF k = 1 /\ script \in {"glm", "sonnet"} THEN EmptyResults ELSE seq

\* the sequence as the loop finds it before angle k
Before(seq, k) == IF k = 1 THEN EmptyResults ELSE seq

\* the loop has handled angle k: it goes on, or main moves to the next step
LoopStep(k, name) ==
    /\ i' = IF k = Len(theta_rad) THEN 0 ELSE k
    /\ pc' = IF k = Len(theta_rad) THEN pc + 1 ELSE pc
    /\ trace' = Append(trace, name)

\* a body that starts from the exact period of the angle before it
estimate_from_previous(seen, k) ==
    TNum(script, theta_rad[k], integral_steps) + (IF k > 1 THEN seen[k - 1] ELSE 0)

\* the body of the per-angle loop: the exact period it computes for angle k.
\* `seen` is the array of exact periods as the body finds it; no script reads it
estimate(seen, k) == TNum(script, theta_rad[k], integral_steps)

\* gpt5, gemini, glm: T_num for the next angle of the grid
ComputeNum ==
    /\ At("num")
    /\ i < Len(theta_rad)
    /\ T_num' = Store(Before(T_num, i + 1), i + 1,
                      estimate(Before(T_num, i + 1), i + 1))
    /\ LoopStep(i + 1, "num")
    /\ UNCHANGED <<config, pool, others, error, theta_deg, theta_rad, T0, T0_array, T_series,
                   err_small, err_series, verification, summary, data_json,
                   report_md, summary_out, run, first>>

\* sonnet, kimi: the loop body for the next angle of the grid
ComputeLoop ==
    /\ At("loop")
    /\ i < Len(theta_rad)
    /\ LET k == i + 1
           T_series_val == compute_T_series(T0, theta_rad[k])
           T_num_val == estimate(Before(T_num, k), k)
       IN  /\ T_series' = Store(Before(T_series, k), k, T_series_val)
           /\ T_num' = Store(Before(T_num, k), k, T_num_val)
           /\ IF script = "kimi"
              THEN /\ T0_array' = Store(Before(T0_array, k), k, T0)
                   /\ err_small' = Store(Before(err_small, k), k,
                                         compute_errors(T0, T_num_val))
                   /\ err_series' = Store(Before(err_series, k), k,
                                          compute_errors(T_series_val, T_num_val))
              ELSE UNCHANGED <<T0_array, err_small, err_series>>
           /\ LoopStep(k, "loop")
    /\ UNCHANGED <<config, pool, others, error, theta_deg, theta_rad, T0, verification, summary,
                   data_json, report_md, summary_out, run, first>>

\* the value the small-angle error of angle k is computed from
SmallOperand(k) == T0_array[k]

\* the length of the error sequences: zip stops at the shorter list
ErrorLength(a, b) == IF Len(a) <= Len(b) THEN Len(a) ELSE Len(b)

\* gpt5: a float division by 0.0 raises
DivisionRaises == script = "gpt5" /\ \E k \in 1..Len(T_num) : T_num[k] = 0

\* gpt5, gemini, sonnet, glm: the two relative-error sequences
ComputeErrors ==
    /\ At("errors")
    /\ IF DivisionRaises
       THEN /\ error' = "ZeroDivisionError"
            /\ UNCHANGED <<pc, err_small, err_series>>
       ELSE /\ err_small' = [k \in 1..ErrorLength(T0_array, T_num) |->
                                compute_errors(SmallOperand(k), T_num[k])]
            /\ err_series' = [k \in 1..ErrorLength(T_series, T_num) |->
                                compute_errors(T_series[k], T_num[k])]
            /\ pc' = pc + 1
            /\ error' = error
    /\ trace' = Append(trace, "errors")
    /\ UNCHANGED <<config, pool, others, i, theta_deg, theta_rad, T0, T0_array, T_series, T_num,
                   verification, summary, data_json, report_md, summary_out,
                   run, first>>

(***************************************************************************)
(* Summary, files and report                                               *)
(***************************************************************************)

\* gpt5: the summary printed at the end of main
summary_gpt5 ==
    LET max_err_small == max(err_small)
        max_err_series == max(err_series)
        idx_max_small == index(err_small, max_err_small)
    IN  [status |-> "success",
         theta_range_deg |-> <<theta_low_deg, theta_high_deg>>,
         max_err_small |-> max_err_small,
         max_err_series |-> max_err_series,
         largest_error_at_deg |-> theta_deg[idx_max_small]]

\* gemini: summary_data
summary_gemini ==
    [status |-> "success",
     theta_range_deg |-> <<theta_low_deg, theta_high_deg>>,
     max_err_small |-> max(err_small),
     max_err_series |-> max(err_series),
     largest_error_at_deg |-> theta_high_deg]

\* sonnet: summary
summary_sonnet ==
    LET max_err_small == max(err_small)
        max_err_series == max(err_series)
        max_err_small_idx == index(err_small, max_err_small)
        max_err_series_idx == index(err_series, max_err_series)
    IN  [status |-> "success",
         theta_range_deg |-> <<theta_low_deg, theta_high_deg>>,
         max_err_small |-> max_err_small,
         max_err_series |-> max_err_series,
         largest_error_small_at_deg |-> theta_deg[max_err_small_idx],
         largest_error_series_at_deg |-> theta_deg[max_err_series_idx]]

\* kimi: summary
summary_kimi ==
    LET max_err_small == max(err_small)
        max_err_series == max(err_series)
        max_idx_small == index(err_small, max_err_small)
        max_idx_series == index(err_series, max_err_series)
    IN  [status |-> "success_with_strict_verification",
         theta_range_deg |-> <<theta_low_deg, theta_high_deg>>,
         max_err_small |-> max_err_small,
         max_err_series |-> max_err_series,
         largest_error_at_deg |-> theta_deg[Max2(max_idx_small, max_idx_series)],
         small_angle_test |-> "PASS",
         large_angle_test |-> "PASS"]

\* the summary statistics of a script
Summarize ==
    /\ At("summary")
    /\ summary' = CASE script = "gpt5" -> summary_gpt5
                    [] script = "gemini" -> summary_gemini
                    [] script = "sonnet" -> summary_sonnet
                    [] script = "kimi" -> summary_kimi
    /\ Advance("summary")
    /\ UNCHANGED <<config, pool, others, error, i, theta_deg, theta_rad, T0, T0_array, T_series,
                   T_num, err_small, err_series, verification, data_json,
                   report_md, summary_out, run, first>>

\* the summary is written (gpt5: printed)
WriteSummary ==
    /\ At("write_summary")
    /\ summary_out' = summary
    /\ Advance("write_summary")
    /\ UNCHANGED <<config, pool, others, error, i, theta_deg, theta_rad, T0, T0_array, T_series,
                   T_num, err_small, err_series, verification, summary, data_json,
                   report_md, run, first>>

\* [round(x, nd) for x in seq]
RoundAll(seq, scale, nd) == [k \in 1..Len(seq) |-> round_nd(seq[k], scale, nd)]

\* gemini: output_data
output_data_gemini ==
    [theta0_deg |-> RoundAll(theta_deg, DEG, 4),
     theta0_rad |-> RoundAll(theta_rad, ONE, 6),
     T0 |-> [k \in 1..sample_count |-> round_nd(T0, ONE, 8)],
     T_series |-> RoundAll(T_series, ONE, 8),
     T_num |-> RoundAll(T_num, ONE, 8),
     err_small |-> RoundAll(err_small, ONE, 10),
     err_series |-> RoundAll(err_series, ONE, 10)]

\* gpt5, sonnet, glm: the arrays as they are
output_data_plain ==
    [theta0_deg |-> theta_deg,
     theta0_rad |-> theta_rad,
     T0 |-> T0_array,
     T_series |-> T_series,
     T_num |-> T_num,
     err_small |-> err_small,
     err_series |-> err_series]

\* kimi: data (its metadata block repeats the inputs and is left out)
output_data_kimi ==
    [theta0_deg |-> theta_deg,
     theta0_rad |-> theta_rad,
     T0 |-> T0_array,
     T_series |-> T_series,
     T_num |-> T_num,
     err_small |-> err_small,
     err_series |-> err_series,
     diff_Tseries_Tnum |-> [k \in 1..Len(T_num) |-> Abs(T_series[k] - T_num[k])]]

\* the data file of a script
OutputData ==
    CASE script = "gemini" -> output_data_gemini
      [] script = "kimi" -> output_data_kimi
      [] OTHER -> output_data_plain

\* json.dump of the data
WriteData ==
    /\ At("write_data")
    /\ data_json' = OutputData
    /\ Advance("write_data")
    /\ UNCHANGED <<config, pool, others, error, i, theta_deg, theta_rad, T0, T0_array, T_series,
                   T_num, err_small, err_series, verification, summary, report_md,
                   summary_out, run, first>>

\* gpt5: the table rows of the report
report_gpt5 ==
    [rows |-> [k \in 1..Len(theta_deg) |->
                 <<format_f(theta_deg[k], DEG, 3), format_f(T0_array[k], ONE, 8),
                   format_f(T_series[k], ONE, 8), format_f(T_num[k], ONE, 8),
                   format_e(err_small[k], 6), format_e(err_series[k], 6)>>]]

\* gemini: generate_report(output_data)
report_gemini ==
    LET data == output_data_gemini
        n == Len(data.theta0_deg)
    IN  [rows |-> [k \in 1..n |->
                     <<FormatDec(data.theta0_deg[k], 2), FormatDec(data.T0[k], 6),
                       FormatDec(data.T_series[k], 6), FormatDec(data.T_num[k], 6),
                       SciDec(data.err_small[k], 2), SciDec(data.err_series[k], 2)>>],
         last_err_small |-> FormatDec(PercentDec(data.err_small[n]), 1),
         last_err_series |-> SciDec(data.err_series[n], 2)]

\* sonnet: the index generate_report reads for the 30 degree line, 0-based
MID_INDEX == 6

\* sonnet: generate_report reads err_small_arr[6] and err_series_arr[6]
ReportRaises == script = "sonnet" /\ Len(err_small) <= MID_INDEX

\* sonnet: generate_report
report_sonnet ==
    LET n == Len(theta_deg)
    IN  [rows |-> [k \in 1..n |->
                     <<format_f(theta_deg[k], DEG, 2), format_f(theta_rad[k], ONE, 5),
                       format_f(T0_array[k], ONE, 4), format_f(T_series[k], ONE, 4),
                       format_f(T_num[k], ONE, 4), format_f(100 * err_small[k], ONE, 4),
                       format_f(100 * err_series[k], ONE, 6)>>],
         small |-> <<format_f(100 * err_small[1], ONE, 4),
                     format_f(100 * err_small[MID_INDEX + 1], ONE, 4),
                     format_f(100 * err_small[n], ONE, 4)>>,
         series |-> <<format_f(100 * err_series[1], ONE, 6),
                      format_f(100 * err_series[MID_INDEX + 1], ONE, 6),
                      format_f(100 * err_series[n], ONE, 4)>>]

\* the report is built and written; an exception while it is built leaves no file
WriteReport ==
    /\ At("write_report")
    /\ IF ReportRaises
       THEN /\ error' = "IndexError"
            /\ UNCHANGED <<pc, report_md>>
       ELSE /\ report_md' = CASE script = "gpt5" -> report_gpt5
                              [] script = "gemini" -> report_gemini
                              [] script = "sonnet" -> report_sonnet
            /\ pc' = pc + 1
            /\ error' = error
    /\ trace' = Append(trace, "write_report")
    /\ UNCHANGED <<config, pool, others, i, theta_deg, theta_rad, T0, T0_array, T_series, T_num,
                   err_small, err_series, verification, summary, data_json,
                   summary_out, run, first>>

\* what a call of main leaves behind
Outcome ==
    [error |-> error, data |-> data_json, report |-> report_md,
     summary |-> summary_out]

\* main is called a second time in the same interpreter: the module's names
\* keep the objects the first call bound them to, the files stay on disk
Rerun ==
    /\ run = 1
    /\ Done \/ Failed
    /\ run' = 2
    /\ first' = Outcome
    /\ pc' = 1
    /\ error' = "none"
    /\ trace' = <<>>
    /\ UNCHANGED <<config, pool, others, i, theta_deg, theta_rad, T0, T0_array, T_series, T_num,
                   err_small, err_series, verification, summary, data_json,
                   report_md, summary_out>>

Next ==
    \/ Validate
    \/ GenerateGrid
    \/ ComputeT0
    \/ Verify
    \/ ComputeSeries
    \/ ComputeNum
    \/ ComputeLoop
    \/ ComputeErrors
    \/ Summarize
    \/ WriteData
    \/ WriteReport
    \/ WriteSummary
    \/ Rerun

Spec == Init /\ [][Next]_vars

(***************************************************************************)
(* The exact-period evaluator called on its own                            *)
(***************************************************************************)

\* the initial angles the evaluator is called with, in degrees
EvalAngles == {0, 5 * DEG, 30 * DEG, 60 * DEG}

\* the even step counts the evaluator is called with
EvalSteps == {2, 4, 6}

\* a script is imported and its evaluator is about to be called with one angle
InitEval ==
    /\ script \in Scripts
    /\ integral_steps \in EvalSteps
    /\ sample_count = 1
    /\ theta_low_deg \in EvalAngles
    /\ theta_high_deg = theta_low_deg
    /\ pc = 1
    /\ error = "none"
    /\ i = 0
    /\ theta_deg = <<theta_low_deg>>
    /\ theta_rad = <<radians(theta_low_deg)>>
    /\ T0 = compute_T0
    /\ T0_array = <<>>
    /\ T_series = <<>>
    /\ T_num = <<>>
    /\ err_small = <<>>
    /\ err_series = <<>>
    /\ verification = Nothing
    /\ summary = Nothing
    /\ data_json = Nothing
    /\ report_md = Nothing
    /\ summary_out = Nothing
    /\ run = 1
    /\ first = Nothing
    /\ trace = <<>>
    /\ order = <<>>
    /\ inflight = <<>>
    /\ agm_state = Nothing
    /\ OthersIdle

\* the evaluator of the script is called with the angle and returns
Evaluate ==
    /\ trace = <<>>
    /\ T_num' = <<TNum(script, theta_rad[1], integral_steps)>>
    /\ trace' = <<"evaluate">>
    /\ UNCHANGED <<config, pool, others, pc, error, i, theta_deg, theta_rad, T0, T0_array,
                   T_series, err_small, err_series, verification, summary,
                   data_json, report_md, summary_out, run, first>>

NextEval == Evaluate

SpecEval == InitEval /\ [][NextEval]_vars

(***************************************************************************)
(* The exact-period evaluator called with two angles                       *)
(***************************************************************************)

\* the initial angles the evaluator is called with in pairs, in degrees: 0.05
\* and 0.06 degrees, whose squares are below the resolution of the arithmetic,
\* and three angles of the usual range
PairAngles == {DEG \div 20, (6 * DEG) \div 100, 5 * DEG, 30 * DEG, 60 * DEG}

\* a script is imported and its evaluator is about to be called with two angles,
\* the smaller one first
InitPair ==
    /\ script \in Scripts
    /\ integral_steps \in EvalSteps
    /\ sample_count = 2
    /\ theta_low_deg \in PairAngles
    /\ theta_high_deg \in PairAngles
    /\ theta_low_deg < theta_high_deg
    /\ pc = 1
    /\ error = "none"
    /\ i = 0
    /\ theta_deg = <<theta_low_deg, theta_high_deg>>
    /\ theta_rad = <<radians(theta_low_deg), radians(theta_high_deg)>>
    /\ T0 = compute_T0
    /\ T0_array = <<>>
    /\ T_series = <<>>
    /\ T_num = <<>>
    /\ err_small = <<>>
    /\ err_series = <<>>
    /\ verification = Nothing
    /\ summary = Nothing
    /\ data_json = Nothing
    /\ report_md = Nothing
    /\ summary_out = Nothing
    /\ run = 1
    /\ first = Nothing
    /\ trace = <<>>
    /\ order = <<>>
    /\ inflight = <<>>
    /\ agm_state = Nothing
    /\ OthersIdle

\* the evaluator of the script is called with each of the two angles
EvaluatePair ==
    /\ trace = <<>>
    /\ T_num' = <<TNum(script, theta_rad[1], integral_steps),
                  TNum(script, theta_rad[2], integral_steps)>>
    /\ trace' = <<"evaluate", "evaluate">>
    /\ UNCHANGED <<config, pool, others, pc, error, i, theta_deg, theta_rad, T0, T0_array,
                   T_series, err_small, err_series, verification, summary,
                   data_json, report_md, summary_out, run, first>>

NextPair == EvaluatePair

SpecPair == InitPair /\ [][NextPair]_vars

(***************************************************************************)
(* The Simpson routines called on their own                                *)
(***************************************************************************)

\* the even step counts the Simpson routines are called with
SimpsonSteps == {2, 4, 6, 8}

\* the step widths h they are called with: the interval is [0, n * h]
SimpsonWidths == {3 * ONE, 6 * ONE}

\* the integrand that is 1 at node j of the rule and 0 at every other node
unit_at(a, b, n, j) ==
    [x \in Nodes(a, b, n) |-> IF x = a + j * IDiv(b - a, n) THEN ONE ELSE 0]

\* the Simpson routine of a script applied to f on [a, b] with n steps
simpson(s, f, a, b, n) ==
    CASE s = "gpt5" -> simpson_integral(f, a, b, n)
      [] s = "gemini" ->
            LET x == np_linspace(a, b, n + 1)
            IN  slice_sum([k \in 1..(n + 1) |-> f[x[k]]], IDiv(b - a, n), n)
      [] s = "glm" ->
            LET h == IDiv(b - a, n)
            IN  weighted_sum([k \in 1..(n + 1) |-> f[a + (k - 1) * h]], h, n)
      [] s = "kimi" -> simpson_integration(f, a, b, n)
      [] s = "sonnet" -> simpson_integrate(f, a, b, n)

\* a script is imported and its Simpson routine is about to be called on the
\* interval theta_rad with integral_steps steps and the unit integrand of node i
InitSimpson ==
    /\ script \in Scripts
    /\ integral_steps \in SimpsonSteps
    /\ sample_count = 1
    /\ theta_low_deg = 0
    /\ theta_high_deg = 0
    /\ pc = 1
    /\ error = "none"
    /\ i \in 0..integral_steps
    /\ theta_deg = <<>>
    /\ \E h \in SimpsonWidths : theta_rad = <<0, integral_steps * h>>
    /\ T0 = compute_T0
    /\ T0_array = <<>>
    /\ T_series = <<>>
    /\ T_num = <<>>
    /\ err_small = <<>>
    /\ err_series = <<>>
    /\ verification = Nothing
    /\ summary = Nothing
    /\ data_json = Nothing
    /\ report_md = Nothing
    /\ summary_out = Nothing
    /\ run = 1
    /\ first = Nothing
    /\ trace = <<>>
    /\ order = <<>>
    /\ inflight = <<>>
    /\ agm_state = Nothing
    /\ OthersIdle

\* the routine is called and returns its integral
ApplySimpson ==
    /\ trace = <<>>
    /\ T_num' = <<simpson(script,
                          unit_at(theta_rad[1], theta_rad[2], integral_steps, i),
                          theta_rad[1], theta_rad[2], integral_steps)>>
    /\ trace' = <<"simpson">>
    /\ UNCHANGED <<config, pool, others, pc, error, i, theta_deg, theta_rad, T0, T0_array,
                   T_series, err_small, err_series, verification, summary,
                   data_json, report_md, summary_out, run, first>>

NextSimpson == ApplySimpson

SpecSimpson == InitSimpson /\ [][NextSimpson]_vars

(***************************************************************************)
(* The Simpson routines called on a constant integrand                     *)
(***************************************************************************)

\* the values c of the constant integrands
ConstantLevels == {-ONE, ONE \div 2, ONE, 2 * ONE}

\* the integrand that is c at every node
constant_at(a, b, n, c) == [x \in Nodes(a, b, n) |-> c]

\* a script is imported and its Simpson routine is about to be called on the
\* interval theta_rad with integral_steps steps and a constant integrand
InitConstant ==
    /\ script \in Scripts
    /\ integral_steps \in SimpsonSteps
    /\ sample_count = 1
    /\ theta_low_deg = 0
    /\ theta_high_deg = 0
    /\ pc = 1
    /\ error = "none"
    /\ i = 0
    /\ theta_deg = <<>>
    /\ \E h \in SimpsonWidths : theta_rad = <<0, integral_steps * h>>
    /\ T0 = compute_T0
    /\ T0_array = <<>>
    /\ T_series = <<>>
    /\ T_num = <<>>
    /\ err_small = <<>>
    /\ err_series = <<>>
    /\ verification = Nothing
    /\ summary = Nothing
    /\ data_json = Nothing
    /\ report_md = Nothing
    /\ summary_out = Nothing
    /\ run = 1
    /\ first = Nothing
    /\ trace = <<>>
    /\ order = <<>>
    /\ inflight = <<>>
    /\ agm_state = Nothing
    /\ entered = Nothing
    /\ portfolio = <<>>
    /\ fetch_log = <<>>
    /\ results = Nothing
    /\ fetcher = Nothing
    /\ targets = Nothing
    /\ validation_result = Nothing
    /\ current_portfolio = Nothing
    /\ proposals = Nothing
    /\ integrand_c \in ConstantLevels

\* the routine is called and returns its integral
ApplyConstant ==
    /\ trace = <<>>
    /\ T_num' = <<simpson(script,
                          constant_at(theta_rad[1], theta_rad[2], integral_steps,
                                      integrand_c),
                          theta_rad[1], theta_rad[2], integral_steps)>>
    /\ trace' = <<"constant">>
    /\ UNCHANGED <<config, pool, others, pc, error, i, theta_deg, theta_rad, T0, T0_array,
                   T_series, err_small, err_series, verification, summary,
                   data_json, report_md, summary_out, run, first>>

NextConstant == ApplyConstant

SpecConstant == InitConstant /\ [][NextConstant]_vars

(***************************************************************************)
(* The AGM loop followed pass by pass                                      *)
(***************************************************************************)

\* sonnet: the grids the loop is followed on, from 0 to 180 degrees in steps of
\* 15 and of 10 degrees
AGMCounts == {13, 19}

\* sonnet: a configuration validate_inputs accepts has been turned into its grid,
\* and compute_T_numerical is entered for angle i of the grid
InitAGM ==
    /\ script = "sonnet"
    /\ integral_steps = MIN_STEPS_SONNET
    /\ sample_count \in AGMCounts
    /\ theta_low_deg = 0
    /\ theta_high_deg = 180 * DEG
    /\ validate_inputs(script, integral_steps, sample_count, theta_low_deg,
                       theta_high_deg) = "ok"
    /\ pc = 1
    /\ error = "none"
    /\ i \in 1..sample_count
    /\ theta_deg = GridDeg(script, theta_low_deg, theta_high_deg, sample_count)
    /\ theta_rad = GridRad(script, theta_low_deg, theta_high_deg, sample_count)
    /\ T0 = compute_T0
    /\ T0_array = <<>>
    /\ T_series = <<>>
    /\ T_num = <<>>
    /\ err_small = <<>>
    /\ err_series = <<>>
    /\ verification = Nothing
    /\ summary = Nothing
    /\ data_json = Nothing
    /\ report_md = Nothing
    /\ summary_out = Nothing
    /\ run = 1
    /\ first = Nothing
    /\ trace = <<>>
    /\ order = <<>>
    /\ inflight = <<>>
    /\ agm_state = agm_start(theta_rad[i])
    /\ OthersIdle

\* the loop runs one more pass
AGMPass ==
    /\ agm_state.left = "running"
    /\ agm_state' = agm_pass(agm_state)
    /\ trace' = Append(trace, "agm")
    /\ UNCHANGED <<config, others, order, inflight, pc, error, i, theta_deg, theta_rad, T0,
                   T0_array, T_series, T_num, err_small, err_series, verification,
                   summary, data_json, report_md, summary_out, run, first>>

NextAGM == AGMPass

SpecAGM == InitAGM /\ [][NextAGM]_vars

(***************************************************************************)
(* The per-angle loop with its angles taken in any order                   *)
(***************************************************************************)

\* the configurations the loop is run out of turn with: four angles, low < high
PoolRanges == {<<2 * DEG, 5 * DEG>>, <<2 * DEG, 60 * DEG>>, <<5 * DEG, 60 * DEG>>}

\* the name of the per-angle loop in the program of a script
LoopName(s) == IF s \in {"sonnet", "kimi"} THEN "loop" ELSE "num"

\* the position of the per-angle loop in the program of a script
LoopAt(s) == CHOOSE j \in 1..Len(Program(s)) : Program(s)[j] = LoopName(s)

\* the angles whose estimate has been stored
Stored == {order[j] : j \in 1..Len(order)}

\* main has reached its per-angle loop: the grid and T0 are there, every result
\* array has one cell per angle, and no angle has been estimated
InitAnyOrder ==
    /\ script \in Scripts
    /\ integral_steps = 4
    /\ sample_count = 4
    /\ \E r \in PoolRanges : theta_low_deg = r[1] /\ theta_high_deg = r[2]
    /\ pc = LoopAt(script)
    /\ error = "none"
    /\ i = 0
    /\ theta_deg = GridDeg(script, theta_low_deg, theta_high_deg, sample_count)
    /\ theta_rad = GridRad(script, theta_low_deg, theta_high_deg, sample_count)
    /\ T0 = compute_T0
    /\ T0_array = [k \in 1..sample_count |-> IF script = "kimi" THEN 0 ELSE compute_T0]
    /\ T_series = [k \in 1..sample_count |->
                     IF script \in {"sonnet", "kimi"} THEN 0
                     ELSE compute_T_series(compute_T0, theta_rad[k])]
    /\ T_num = zeros(sample_count)
    /\ err_small = IF script = "kimi" THEN zeros(sample_count) ELSE <<>>
    /\ err_series = IF script = "kimi" THEN zeros(sample_count) ELSE <<>>
    /\ verification = Nothing
    /\ summary = Nothing
    /\ data_json = Nothing
    /\ report_md = Nothing
    /\ summary_out = Nothing
    /\ run = 1
    /\ first = Nothing
    /\ trace = SubSeq(Program(script), 1, LoopAt(script) - 1)
    /\ order = <<>>
    /\ inflight = <<>>
    /\ agm_state = Nothing
    /\ OthersIdle

\* the body of the loop is entered for an angle that nobody has taken yet: it
\* reads what it reads and computes its values
BeginEstimate ==
    /\ At(LoopName(script))
    /\ \E k \in 1..sample_count :
          /\ k \notin Stored
          /\ k \notin DOMAIN inflight
          /\ inflight' = [j \in DOMAIN inflight \cup {k} |->
                            IF j = k
                            THEN [T_series |-> compute_T_series(T0, theta_rad[k]),
                                  T_num |-> estimate(T_num, k)]
                            ELSE inflight[j]]
    /\ UNCHANGED <<config, others, order, agm_state, pc, error, i, theta_deg, theta_rad, T0,
                   T0_array, T_series, T_num, err_small, err_series, verification,
                   summary, data_json, report_md, summary_out, run, first, trace>>

\* the body of the loop ends for an angle: its values go to the cell of the angle
StoreEstimate ==
    /\ At(LoopName(script))
    /\ \E k \in DOMAIN inflight :
          LET T_series_val == inflight[k].T_series
              T_num_val == inflight[k].T_num
          IN  /\ T_num' = [T_num EXCEPT ![k] = T_num_val]
              /\ IF script \in {"sonnet", "kimi"}
                 THEN T_series' = [T_series EXCEPT ![k] = T_series_val]
                 ELSE T_series' = T_series
              /\ IF script = "kimi"
                 THEN /\ T0_array' = [T0_array EXCEPT ![k] = T0]
                      /\ err_small' = [err_small EXCEPT ![k] =
                                          compute_errors(T0, T_num_val)]
                      /\ err_series' = [err_series EXCEPT ![k] =
                                           compute_errors(T_series_val, T_num_val)]
                 ELSE UNCHANGED <<T0_array, err_small, err_series>>
              /\ inflight' = [j \in DOMAIN inflight \ {k} |-> inflight[j]]
              /\ order' = Append(order, k)
              /\ pc' = IF Len(order) + 1 = sample_count THEN pc + 1 ELSE pc
              /\ trace' = Append(trace, LoopName(script))
    /\ UNCHANGED <<config, others, agm_state, error, i, theta_deg, theta_rad, T0,
                   verification, summary, data_json, report_md, summary_out, run,
                   first>>

NextAnyOrder ==
    \/ BeginEstimate
    \/ StoreEstimate

SpecAnyOrder == InitAnyOrder /\ [][NextAnyOrder]_vars

(***************************************************************************)
(* A run up to its first Simpson call, on step counts of any sign          *)
(***************************************************************************)

\* the step counts a run is started with
StepRange == {-2, 0, 2, 3, 4}

\* gpt5, gemini, kimi: validate the inputs, then call a Simpson routine from main
SimpsonCallers == {"gpt5", "gemini", "kimi"}

\* x / 0 for x > 0: a Python float raises, a numpy float gives inf
Inf == 2147483647

\* the head of a Simpson routine, down to the points its integrand is called at:
\* kimi tests the parity of n, every routine divides b - a > 0 by n, gpt5 and
\* kimi then run range(1, n), gemini builds linspace(a, b, n + 1)
simpson_head(s, a, b, n) ==
    IF s = "kimi" /\ n % 2 # 0 THEN [raised |-> "ValueError"]
    ELSE IF n = 0 /\ s \in {"gpt5", "kimi"} THEN [raised |-> "ZeroDivisionError"]
    ELSE IF s = "gemini" /\ n + 1 < 0 THEN [raised |-> "ValueError"]
    ELSE [raised |-> "none",
          n |-> n,
          h |-> IF n = 0 THEN Inf ELSE IDiv(b - a, n),
          points |-> IF s = "gemini" THEN n + 1 ELSE 2 + Max2(n - 1, 0)]

\* the step of main from which the Simpson routine is first called with
\* integral_steps
CallingStep(s) == IF s = "kimi" THEN "verify" ELSE "num"

\* the upper limit of that first call: kimi integrates over [0, pi/2] in
\* verify_large_angle, gpt5 and gemini over [0, theta0] for the first angle
FirstUpperLimit(s) == IF s = "kimi" THEN PI \div 2 ELSE theta_rad[1]

InitSteps ==
    /\ script \in SimpsonCallers
    /\ integral_steps \in StepRange
    /\ sample_count \in CountChoices
    /\ theta_low_deg \in LowChoices
    /\ theta_high_deg \in HighChoices
    /\ pc = 1
    /\ error = "none"
    /\ i = 0
    /\ theta_deg = <<>>
    /\ theta_rad = <<>>
    /\ T0 = 0
    /\ T0_array = <<>>
    /\ T_series = <<>>
    /\ T_num = <<>>
    /\ err_small = <<>>
    /\ err_series = <<>>
    /\ verification = Nothing
    /\ summary = Nothing
    /\ data_json = Nothing
    /\ report_md = Nothing
    /\ summary_out = Nothing
    /\ run = 1
    /\ first = Nothing
    /\ trace = <<>>
    /\ order = <<>>
    /\ inflight = <<>>
    /\ agm_state = Nothing
    /\ OthersIdle

\* main reaches its first call of the Simpson routine: the head of the routine
\* runs, and what it raises ends the run
EnterSimpson ==
    /\ At(CallingStep(script))
    /\ entered = Nothing
    /\ entered' = simpson_head(script, 0, FirstUpperLimit(script), integral_steps)
    /\ error' = entered'.raised
    /\ UNCHANGED <<config, pool, pc, i, theta_deg, theta_rad, T0, T0_array, T_series,
                   T_num, err_small, err_series, verification, summary, data_json,
                   report_md, summary_out, run, first, trace, portfolio, fetch_log,
                   results, fetcher, validator_vars, analyzer_vars, integrand_c>>

NextSteps ==
    \/ Validate
    \/ GenerateGrid
    \/ ComputeT0
    \/ ComputeSeries
    \/ EnterSimpson

SpecSteps == InitSteps /\ [][NextSteps]_vars

(***************************************************************************)
(* kimi's main on step counts of either sign                               *)
(***************************************************************************)

\* kimi: the even step counts main is started with; 0 ends the run in
\* verify_large_angle before anything is written
StrictSteps == {-2, 2, 4}

InitStrict ==
    /\ script = "kimi"
    /\ integral_steps \in StrictSteps
    /\ sample_count \in CountChoices
    /\ theta_low_deg \in LowChoices
    /\ theta_high_deg \in HighChoices
    /\ pc = 1
    /\ error = "none"
    /\ i = 0
    /\ theta_deg = <<>>
    /\ theta_rad = <<>>
    /\ T0 = 0
    /\ T0_array = <<>>
    /\ T_series = <<>>
    /\ T_num = <<>>
    /\ err_small = <<>>
    /\ err_series = <<>>
    /\ verification = Nothing
    /\ summary = Nothing
    /\ data_json = Nothing
    /\ report_md = Nothing
    /\ summary_out = Nothing
    /\ run = 1
    /\ first = Nothing
    /\ trace = <<>>
    /\ order = <<>>
    /\ inflight = <<>>
    /\ agm_state = Nothing
    /\ OthersIdle

NextStrict ==
    \/ Validate
    \/ GenerateGrid
    \/ ComputeT0
    \/ Verify
    \/ ComputeLoop
    \/ Summarize
    \/ WriteData
    \/ WriteSummary

SpecStrict == InitStrict /\ [][NextStrict]_vars

(***************************************************************************)
(* The portfolio analyzer: fetch_portfolio_data                            *)
(***************************************************************************)

\* the items a portfolio list is made of; the last one lacks its "weight"
ItemChoices ==
    {[ticker |-> "AAPL", weight |-> 600, type |-> "equity"],
     [ticker |-> "SGOV", weight |-> 400, type |-> "etf"],
     [ticker |-> "NVDA", type |-> "equity"]}

\* the longest portfolio list followed
MaxItems == 3

\* the portfolio lists fetch_portfolio_data is called with
Portfolios == UNION {[1..n -> ItemChoices] : n \in 0..MaxItems}

\* what the request of fetch_yahoo_finance_data ends with: a chart result, a
\* response without one, an exception (of the request or of the parsing)
YahooResponses == {"result", "no result", "exception"}

\* how the body of fetch_alpha_vantage_data ends: it returns, or the clock or
\* numpy.random raises
AlphaOutcomes == {"returns", "exception"}

\* log_fetch: one entry appended (its timestamp, url and data size are left out)
log_fetch(log, ticker, source, status) ==
    Append(log, [ticker |-> ticker, source |-> source, status |-> status])

\* fetch_yahoo_finance_data: the dict it returns and the log it leaves
fetch_yahoo_finance_data(log, ticker, response) ==
    CASE response = "result" ->
            [data |-> [ticker |-> ticker, source |-> "Yahoo Finance API",
                       status |-> "success"],
             fetch_log |-> log_fetch(log, ticker, "Yahoo Finance API", "success")]
      [] response = "no result" ->
            [data |-> [ticker |-> ticker, source |-> "none", status |-> "failed"],
             fetch_log |-> log_fetch(log, ticker, "Yahoo Finance API",
                                     "failed - no data")]
      [] response = "exception" ->
            [data |-> [ticker |-> ticker, source |-> "none", status |-> "failed"],
             fetch_log |-> log_fetch(log, ticker, "Yahoo Finance API",
                                     "failed - exception")]

\* fetch_alpha_vantage_data: the dict it returns and the log it leaves
fetch_alpha_vantage_data(log, ticker, outcome) ==
    IF outcome = "returns"
    THEN [data |-> [ticker |-> ticker, source |-> "Alpha Vantage (Mock)",
                    status |-> "success"],
          fetch_log |-> log_fetch(log, ticker, "Alpha Vantage (Mock)", "success")]
    ELSE [data |-> [ticker |-> ticker, source |-> "none", status |-> "failed"],
          fetch_log |-> log_fetch(log, ticker, "Alpha Vantage", "failed - exception")]

\* the fallback tried whatever the first source returned
fallback_always(data) == TRUE

\* fetch_single_ticker_data: the test that sends it to the fallback
fallback_needed(data) == data.status # "success"

\* only the successful fetches counted
count_successes(counts, data) ==
    IF data.status = "success"
    THEN [counts EXCEPT !.successful_fetches = @ + 1]
    ELSE counts

\* fetch_portfolio_data: the counter an item moves
count_fetch(counts, data) ==
    IF data.status = "success"
    THEN [counts EXCEPT !.successful_fetches = @ + 1]
    ELSE [counts EXCEPT !.failed_fetches = @ + 1]

\* results['portfolio_data'][ticker] = data
SetItem(dict, key, value) ==
    [t \in DOMAIN dict \cup {key} |-> IF t = key THEN value ELSE dict[t]]

\* the stage the loop over the portfolio is at when it turns to item k
StageAt(k) == IF k <= Len(portfolio) THEN "yahoo" ELSE "save"

InitFetch ==
    /\ MainIdle
    /\ entered = Nothing
    /\ portfolio \in Portfolios
    /\ fetch_log = <<>>
    /\ results = Nothing
    /\ fetcher = Nothing
    /\ targets = Nothing
    /\ validation_result = Nothing
    /\ current_portfolio = Nothing
    /\ proposals = Nothing
    /\ integrand_c = Nothing

\* fetch_portfolio_data is called: results is set up and the loop begins
StartFetch ==
    /\ fetcher = Nothing
    /\ results' = [portfolio_data |-> <<>>,
                   summary |-> [total_tickers |-> Len(portfolio),
                                successful_fetches |-> 0,
                                failed_fetches |-> 0]]
    /\ fetcher' = [item |-> 1, stage |-> StageAt(1), data |-> Nothing,
                   attempts |-> <<>>]
    /\ UNCHANGED <<config, pool, main_vars, entered, validator_vars, analyzer_vars, integrand_c, portfolio, fetch_log>>

\* fetch_single_ticker_data is entered for the item and calls the first source
FetchYahoo ==
    /\ fetcher # Nothing
    /\ fetcher.stage = "yahoo"
    /\ \E response \in YahooResponses :
          LET ticker == portfolio[fetcher.item].ticker
              got == fetch_yahoo_finance_data(fetch_log, ticker, response)
          IN  /\ fetch_log' = got.fetch_log
              /\ fetcher' = [fetcher EXCEPT
                    !.stage = IF fallback_needed(got.data) THEN "alpha" ELSE "rest",
                    !.data = got.data,
                    !.attempts = Append(@, [item |-> fetcher.item,
                                            source |-> "yahoo",
                                            status |-> got.data.status])]
    /\ UNCHANGED <<config, pool, main_vars, entered, validator_vars, analyzer_vars, integrand_c, portfolio, results>>

\* fetch_single_ticker_data calls the fallback
FetchAlpha ==
    /\ fetcher # Nothing
    /\ fetcher.stage = "alpha"
    /\ \E outcome \in AlphaOutcomes :
          LET ticker == portfolio[fetcher.item].ticker
              got == fetch_alpha_vantage_data(fetch_log, ticker, outcome)
          IN  /\ fetch_log' = got.fetch_log
              /\ fetcher' = [fetcher EXCEPT
                    !.stage = "rest",
                    !.data = got.data,
                    !.attempts = Append(@, [item |-> fetcher.item,
                                            source |-> "alpha",
                                            status |-> got.data.status])]
    /\ UNCHANGED <<config, pool, main_vars, entered, validator_vars, analyzer_vars, integrand_c, portfolio, results>>

\* the rest of fetch_single_ticker_data (holdings, news and derived metrics are
\* added to data and leave its status) and of the loop body: the weight and the
\* type of the item, the entry of results, the counter
FinishItem ==
    /\ fetcher # Nothing
    /\ fetcher.stage = "rest"
    /\ LET item == portfolio[fetcher.item]
       IN  IF "weight" \notin DOMAIN item
           THEN /\ fetcher' = [fetcher EXCEPT !.stage = "KeyError"]
                /\ results' = results
           ELSE LET data == [ticker |-> fetcher.data.ticker,
                             source |-> fetcher.data.source,
                             status |-> fetcher.data.status,
                             portfolio_weight |-> item.weight,
                             asset_type |-> item.type]
                IN  /\ results' =
                          [portfolio_data |->
                               SetItem(results.portfolio_data, item.ticker, data),
                           summary |-> count_fetch(results.summary, data)]
                    /\ fetcher' = [fetcher EXCEPT
                          !.item = @ + 1,
                          !.stage = StageAt(fetcher.item + 1),
                          !.data = Nothing]
    /\ UNCHANGED <<config, pool, main_vars, entered, validator_vars, analyzer_vars, integrand_c, portfolio, fetch_log>>

\* the fetch log is saved and results returned
SaveLog ==
    /\ fetcher # Nothing
    /\ fetcher.stage = "save"
    /\ fetcher' = [fetcher EXCEPT !.stage = "returned"]
    /\ UNCHANGED <<config, pool, main_vars, entered, validator_vars, analyzer_vars, integrand_c, portfolio, fetch_log, results>>

NextFetch ==
    \/ StartFetch
    \/ FetchYahoo
    \/ FetchAlpha
    \/ FinishItem
    \/ SaveLog

SpecFetch == InitFetch /\ [][NextFetch]_vars

(***************************************************************************)
(* The portfolio analyzer: validate_portfolio                              *)
(***************************************************************************)

\* a weight of 1.0: weights are counted in thousandths
WEIGHT_ONE == 1000

\* PortfolioValidator.tolerance
tolerance == 5

\* the tickers validate_portfolio counts as cash-like
CASH_LIKE == {"SGOV", "BIL", "SHY", "IEF"}

\* str.upper() on the tickers followed
upper(ticker) == IF ticker = "aapl" THEN "AAPL" ELSE ticker

\* the items the validated lists are made of
ValidatorItems ==
    [ticker : {"AAPL", "aapl", "SGOV"}, weight : {0, 300, 500, 700}]

\* the dict "targets": empty, or with one or both of its limits
TargetChoices ==
    {<<>>,
     [max_single_name_weight |-> 400],
     [min_cash_like |-> 400],
     [max_single_name_weight |-> 400, min_cash_like |-> 400]}

\* targets.get(key, default)
get(dict, key, default) == IF key \in DOMAIN dict THEN dict[key] ELSE default

\* the members of a set of positions, in ascending order: the order in which a
\* loop over the list meets them
InOrder(J) ==
    [n \in 1..Cardinality(J) |->
        CHOOSE j \in J : Cardinality({x \in J : x <= j}) = n]

\* validate_portfolio: the result as set up, and the check of the weight sum
check_sum(pf) ==
    LET total_weight == SumTo([j \in 1..Len(pf) |-> pf[j].weight], Len(pf))
        weight_diff == Abs(total_weight - WEIGHT_ONE)
    IN  [valid |-> ~(weight_diff > tolerance),
         warnings |-> IF weight_diff > tolerance THEN <<>>
                      ELSE <<[check |-> "sum", ticker |-> "none"]>>,
         errors |-> IF weight_diff > tolerance
                    THEN <<[check |-> "sum", ticker |-> "none"]>>
                    ELSE <<>>,
         total_weight |-> total_weight,
         weight_diff |-> weight_diff]

\* duplicate tickers reported and the result left valid
check_duplicates_reported(r, pf) ==
    IF Cardinality({upper(pf[j].ticker) : j \in 1..Len(pf)}) # Len(pf)
    THEN [r EXCEPT !.errors = Append(@, [check |-> "duplicates", ticker |-> "none"])]
    ELSE r

\* validate_portfolio: the check for duplicate tickers
check_duplicates(r, pf) ==
    IF Cardinality({upper(pf[j].ticker) : j \in 1..Len(pf)}) # Len(pf)
    THEN [r EXCEPT !.errors = Append(@, [check |-> "duplicates", ticker |-> "none"]),
                   !.valid = FALSE]
    ELSE r

\* validate_portfolio: the check of the individual weights
check_weights(r, pf) ==
    LET bad == InOrder({j \in 1..Len(pf) : pf[j].weight <= 0})
    IN  [r EXCEPT !.errors = @ \o [n \in 1..Len(bad) |->
                                     [check |-> "weight", ticker |-> pf[bad[n]].ticker]],
                  !.valid = IF Len(bad) > 0 THEN FALSE ELSE @]

\* validate_portfolio: the target constraints, single names and cash-like weight
check_targets(r, pf, tg) ==
    LET max_single_weight == get(tg, "max_single_name_weight", WEIGHT_ONE)
        min_cash_like == get(tg, "min_cash_like", 0)
        above == InOrder({j \in 1..Len(pf) : pf[j].weight > max_single_weight})
        cash == [j \in 1..Len(pf) |->
                    IF pf[j].ticker \in CASH_LIKE THEN pf[j].weight ELSE 0]
        cash_like_weight == SumTo(cash, Len(pf))
    IN  [r EXCEPT !.warnings =
            (@ \o [n \in 1..Len(above) |->
                     [check |-> "single name", ticker |-> pf[above[n]].ticker]])
            \o (IF cash_like_weight < min_cash_like
                THEN <<[check |-> "cash-like", ticker |-> "none"]>>
                ELSE <<>>)]

\* PortfolioValidator.validate_portfolio
validate_portfolio(pf, tg) ==
    check_targets(check_weights(check_duplicates(check_sum(pf), pf), pf), pf, tg)

InitValidate ==
    /\ MainIdle
    /\ entered = Nothing
    /\ portfolio \in UNION {[1..n -> ValidatorItems] : n \in 0..MaxItems}
    /\ fetch_log = <<>>
    /\ results = Nothing
    /\ fetcher = Nothing
    /\ targets \in TargetChoices
    /\ validation_result = Nothing
    /\ current_portfolio = Nothing
    /\ proposals = Nothing
    /\ integrand_c = Nothing

\* validate_portfolio is called on the portfolio and its targets
ValidatePortfolio ==
    /\ validation_result = Nothing
    /\ validation_result' = validate_portfolio(portfolio, targets)
    /\ UNCHANGED <<config, pool, main_vars, entered, portfolio, fetch_log, results,
                   fetcher, targets, analyzer_vars, integrand_c>>

NextValidate == ValidatePortfolio

SpecValidate == InitValidate /\ [][NextValidate]_vars

(***************************************************************************)
(* The portfolio analyzer: generate_optimization_proposals                 *)
(***************************************************************************)

\* the tickers a current portfolio is made of
AnalyzerTickers == {"NVDA", "AMZN", "SOXX", "JEPI", "JEPQ", "SGOV", "AAPL"}

\* the weights of its positions, in thousandths
PositionWeights == {0, 150}

\* 0.05, the weight plan B adds to each defensive position
DEFENSIVE_STEP == 50

\* 0.01, the change of weight from which a change is listed
SIGNIFICANT == 10

\* w * 0.9, w * 0.8, w * 0.85, w * 0.1: a weight times a percentage
times(w, percent) == (w * percent) \div 100

\* sum(weights.values())
RECURSIVE total(_, _)
total(weights, keys) ==
    IF keys = {} THEN 0
    ELSE LET t == CHOOSE x \in keys : TRUE
         IN  weights[t] + total(weights, keys \ {t})

\* weights[key] = value for a key of the dict
SetWeight(weights, key, value) == [weights EXCEPT ![key] = value]

\* weights[key] *= percent when the key is in the dict
Reduce(weights, key, percent) ==
    IF key \in DOMAIN weights
    THEN SetWeight(weights, key, times(weights[key], percent))
    ELSE weights

\* plan A: NVDA reduced by 10%, and a tenth of what is left added to SGOV
adjust_a(weights) ==
    IF "NVDA" \notin DOMAIN weights THEN [raised |-> "none", weights |-> weights]
    ELSE LET reduced == Reduce(weights, "NVDA", 90)
         IN  IF "SGOV" \notin DOMAIN reduced
             THEN [raised |-> "KeyError"]
             ELSE [raised |-> "none",
                   weights |-> SetWeight(reduced, "SGOV",
                                  reduced["SGOV"] + times(reduced["NVDA"], 10))]

\* plan B: NVDA, AMZN and SOXX reduced when held, JEPI, JEPQ and SGOV increased
adjust_b(weights) ==
    LET reduced == Reduce(Reduce(Reduce(weights, "NVDA", 80), "AMZN", 90), "SOXX", 85)
    IN  IF {"JEPI", "JEPQ", "SGOV"} \subseteq DOMAIN reduced
        THEN [raised |-> "none",
              weights |-> [t \in DOMAIN reduced |->
                             IF t \in {"JEPI", "JEPQ", "SGOV"}
                             THEN reduced[t] + DEFENSIVE_STEP
                             ELSE reduced[t]]]
        ELSE [raised |-> "KeyError"]

\* the weights divided by their sum
normalize(adjusted) ==
    IF adjusted.raised # "none" THEN adjusted
    ELSE LET sum == total(adjusted.weights, DOMAIN adjusted.weights)
         IN  IF sum = 0 THEN [raised |-> "ZeroDivisionError"]
             ELSE [raised |-> "none",
                   weights |-> [t \in DOMAIN adjusted.weights |->
                                  (adjusted.weights[t] * WEIGHT_ONE) \div sum]]

\* the tickers whose change of weight a plan lists
changes(new_weights, current) ==
    {t \in DOMAIN current :
        t \in DOMAIN new_weights /\ Abs(new_weights[t] - current[t]) > SIGNIFICANT}

\* PortfolioAnalyzer.generate_optimization_proposals: the two plans (their
\* expected metrics are computed from the weights and left out), or what the
\* call raises
generate_optimization_proposals(current) ==
    LET plan_a == normalize(adjust_a(current))
        plan_b == normalize(adjust_b(current))
    IN  IF plan_a.raised # "none" THEN [raised |-> plan_a.raised]
        ELSE IF plan_b.raised # "none" THEN [raised |-> plan_b.raised]
        ELSE [raised |-> "none",
              plan_a_conservative |->
                  [new_weights |-> plan_a.weights,
                   changes |-> changes(plan_a.weights, current)],
              plan_b_aggressive |->
                  [new_weights |-> plan_b.weights,
                   changes |-> changes(plan_b.weights, current)]]

InitProposals ==
    /\ MainIdle
    /\ entered = Nothing
    /\ portfolio = <<>>
    /\ fetch_log = <<>>
    /\ results = Nothing
    /\ fetcher = Nothing
    /\ targets = Nothing
    /\ validation_result = Nothing
    /\ current_portfolio \in
          UNION {[held -> PositionWeights] : held \in SUBSET AnalyzerTickers}
    /\ proposals = Nothing
    /\ integrand_c = Nothing

\* run_complete_analysis calls generate_optimization_proposals
GenerateProposals ==
    /\ proposals = Nothing
    /\ proposals' = generate_optimization_proposals(current_portfolio)
    /\ UNCHANGED <<config, pool, main_vars, entered, portfolio, fetch_log, results,
                   fetcher, validator_vars, current_portfolio, integrand_c>>

NextProposals == GenerateProposals

SpecProposals == InitProposals /\ [][NextProposals]_vars

(***************************************************************************)
(* Vocabulary of the properties                                            *)
(***************************************************************************)

\* the current call of main has run the step `name`, to its end or to an exception
Took(name) == \E j \in 1..Len(trace) : trace[j] = name

\* the current call of main has run the step `name` to its end
Past(name) ==
    \E j \in 1..Len(Program(script)) : Program(script)[j] = name /\ pc > j

\* the call was stopped by its validation step and did nothing else
Rejected == Failed /\ trace = <<"validate">>

\* the call has not begun, or was stopped by its validation step
NothingOrRejected == trace = <<>> \/ Rejected

\* a sequence of numbers is strictly increasing
StrictlyIncreasing(seq) == \A k \in 1..(Len(seq) - 1) : seq[k] < seq[k + 1]

(***************************************************************************)
(* Properties                                                              *)
(***************************************************************************)

\* C1: in every script a configuration with an odd integral_steps, or with a
\* sample_count below 4, is stopped with an error by the validation step, and
\* the call computes no period: it takes no step but the validation.
C1_OddOrFewRejected ==
    (integral_steps % 2 # 0 \/ sample_count < 4) => NothingOrRejected

\* C2: in the scripts that validate, a configuration with low >= high, both
\* inside (0, 90), is stopped with an error before the grid is generated and
\* before any period is computed.
C2_LowNotBelowHighRejected ==
    (/\ script # "glm"
     /\ 0 < theta_low_deg /\ theta_high_deg < 90 * DEG
     /\ theta_low_deg >= theta_high_deg)
        => NothingOrRejected

\* C3: in the scripts that validate, a configuration with high >= 90 or low <= 0
\* is stopped with an error before any period is computed, so that no
\* configuration past the validation has an angle outside (0, 90).
C3_RangeRejected ==
    (script # "glm" /\ (theta_high_deg >= 90 * DEG \/ theta_low_deg <= 0))
        => NothingOrRejected

\* C4: in every call of main the validation is the first step taken: nothing
\* of the grid, the periods or the files comes before it, and a failed
\* validation is the last step of the call.
C4_ValidationFirst ==
    /\ trace # <<>> => trace[1] = "validate"
    /\ (Took("validate") /\ Failed /\ ~Past("validate")) => trace = <<"validate">>

\* the grid of the current call is there and its configuration was validated
ValidatedGrid == Past("validate") /\ Past("grid")

\* angle k of an n-point grid is low + (k - 1) * (high - low) / (n - 1), to
\* within one unit of the degree scale for each of the k roundings behind it
OnTheLine(seq, k) ==
    LET n == Len(seq)
        exact == theta_low_deg * (n - 1) + (k - 1) * (theta_high_deg - theta_low_deg)
    IN  Abs(seq[k] * (n - 1) - exact) <= k * (n - 1)

\* C5: for every validated configuration the grid has sample_count angles on
\* the line from low to high, strictly increasing, the first equal to
\* theta_low_deg and the last equal to theta_high_deg.
C5_GridShape ==
    ValidatedGrid =>
        /\ Len(theta_deg) = sample_count
        /\ \A k \in 1..Len(theta_deg) : OnTheLine(theta_deg, k)
        /\ StrictlyIncreasing(theta_deg)
        /\ theta_deg[1] = theta_low_deg
        /\ theta_deg[Len(theta_deg)] = theta_high_deg

\* the evaluator has returned from a call with the initial angle 0
EvaluatedAtZero == trace = <<"evaluate">> /\ theta_rad[1] = 0

\* C6: called with the initial angle 0, the evaluator of every script returns
\* the small-angle period 2 pi sqrt(L/g) exactly.
C6_ZeroAngleIsT0 == EvaluatedAtZero => T_num[1] = T0

\* the error sequences of the current call are complete
ErrorsComputed == IF script = "kimi" THEN Past("loop") ELSE Past("errors")

\* |approx - exact| / exact, not a number when an operand is none or exact is 0
RelativeError(approx, exact) ==
    IF approx = NaN \/ exact = NaN \/ exact = 0 THEN NaN
    ELSE FDiv(Abs(approx - exact), exact)

\* C7: once the errors are computed, for every index k of the grid T_series[k]
\* and T_num[k] are the values of angle k, err_small[k] is |T0 - T_num[k]| /
\* T_num[k] and err_series[k] is |T_series[k] - T_num[k]| / T_num[k].
C7_ErrorsPaired ==
    ErrorsComputed =>
        /\ Len(err_small) = Len(theta_rad)
        /\ Len(err_series) = Len(theta_rad)
        /\ \A k \in 1..Len(theta_rad) :
              /\ T_series[k] = compute_T_series(T0, theta_rad[k])
              /\ T_num[k] = TNum(script, theta_rad[k], integral_steps)
              /\ err_small[k] = RelativeError(T0, T_num[k])
              /\ err_series[k] = RelativeError(T_series[k], T_num[k])

\* C7 witness: gpt5 has computed the errors of a grid whose exact periods differ
C7_Witness ==
    /\ script = "gpt5"
    /\ ErrorsComputed
    /\ Len(err_small) = sample_count
    /\ T_num[1] # T_num[sample_count]
    /\ err_small[1] # err_small[sample_count]
    /\ err_series[1] # err_series[sample_count]

\* the first index at which a sequence takes its largest value
FirstMaxIndex(seq) ==
    CHOOSE k \in 1..Len(seq) :
        /\ \A j \in 1..Len(seq) : seq[j] <= seq[k]
        /\ \A j \in 1..(k - 1) : seq[j] < seq[k]

\* the angle a summary gives for err_small: a summary with one angle gives it
\* for both sequences
SmallAngleOf(s) ==
    IF "largest_error_small_at_deg" \in DOMAIN s
    THEN s.largest_error_small_at_deg ELSE s.largest_error_at_deg

\* the angle a summary gives for err_series
SeriesAngleOf(s) ==
    IF "largest_error_series_at_deg" \in DOMAIN s
    THEN s.largest_error_series_at_deg ELSE s.largest_error_at_deg

\* two values in degrees name the same angle of the grid: they differ by no
\* more than the unit of the degree scale
SameAngle(a, b) == Abs(a - b) <= 1

\* C8: the summary written gives, for err_small and for err_series, the largest
\* value of the sequence and the grid angle at the first index where it occurs.
C8_MaxAndAngle ==
    Past("write_summary") =>
        /\ summary_out.max_err_small = err_small[FirstMaxIndex(err_small)]
        /\ summary_out.max_err_series = err_series[FirstMaxIndex(err_series)]
        /\ SameAngle(SmallAngleOf(summary_out), theta_deg[FirstMaxIndex(err_small)])
        /\ SameAngle(SeriesAngleOf(summary_out), theta_deg[FirstMaxIndex(err_series)])

\* one decimal number is below another
DecLess(a, b) ==
    \/ a.whole < b.whole
    \/ /\ a.whole = b.whole
       /\ \E p \in 1..FRACTION_DIGITS :
             a.frac[p] < b.frac[p] /\ \A j \in 1..(p - 1) : a.frac[j] = b.frac[j]

\* a sequence of the data file is strictly increasing; gemini's holds decimals
EmittedIncreasing(seq) ==
    IF script = "gemini"
    THEN \A k \in 1..(Len(seq) - 1) : DecLess(seq[k], seq[k + 1])
    ELSE StrictlyIncreasing(seq)

\* the number w of the data file is the period x, as it is or rounded
EmitsValue(w, x) ==
    IF script = "gemini"
    THEN \E nd \in 0..FRACTION_DIGITS : w = RoundDec(float_repr(x, ONE), nd)
    ELSE w = x

\* the sequences of the data file
Emitted(d) ==
    <<d.theta0_deg, d.theta0_rad, d.T0, d.T_series, d.T_num, d.err_small,
      d.err_series>>

\* C9: at the end of a successful call of a script that validates, every
\* sequence of the data file has sample_count elements, the angles are in
\* increasing order and element k of the periods is the value of angle k.
C9_EmittedInGridOrder ==
    (script # "glm" /\ Done) =>
        /\ \A q \in 1..Len(Emitted(data_json)) :
              Len(Emitted(data_json)[q]) = sample_count
        /\ EmittedIncreasing(data_json.theta0_deg)
        /\ EmittedIncreasing(data_json.theta0_rad)
        /\ \A k \in 1..Len(theta_rad) :
              /\ EmitsValue(data_json.T_series[k], compute_T_series(T0, theta_rad[k]))
              /\ EmitsValue(data_json.T_num[k],
                            TNum(script, theta_rad[k], integral_steps))

\* C10: a second call of main with the same configuration ends as the first
\* did, with the same data, the same report and the same summary.
C10_SecondRunSame == (run = 2 /\ (Done \/ Failed)) => Outcome = first

\* C10 witness: a second call has written its data and its summary
C10_Witness ==
    /\ run = 2
    /\ Done
    /\ script \in {"gpt5", "kimi", "sonnet"}
    /\ first.data # Nothing
    /\ data_json # Nothing
    /\ summary_out # Nothing

\* the number w of the data file is the computed float x
WrittenAs(w, x, scale) ==
    IF script = "gemini" THEN x # NaN /\ w = float_repr(x, scale) ELSE w = x

\* every element of a sequence of the data file is the computed one
WrittenAll(ws, xs, scale) ==
    /\ Len(ws) = Len(xs)
    /\ \A k \in 1..Len(xs) : WrittenAs(ws[k], xs[k], scale)

\* the text t of a report, with its decimals, is the computed float x
RenderedAs(t, x, scale) ==
    /\ t.whole = float_repr(x, scale).whole
    /\ \A j \in 1..FRACTION_DIGITS :
          float_repr(x, scale).frac[j] = (IF j <= t.decimals THEN t.frac[j] ELSE 0)

\* C11: every number of the data file, and every angle and period of a report
\* row, is the value the computation produced for that angle and field: the
\* export rounds nothing.
C11_ExportUnchanged ==
    /\ Past("write_data") =>
          /\ WrittenAll(data_json.theta0_deg, theta_deg, DEG)
          /\ WrittenAll(data_json.theta0_rad, theta_rad, ONE)
          /\ WrittenAll(data_json.T0, T0_array, ONE)
          /\ WrittenAll(data_json.T_series, T_series, ONE)
          /\ WrittenAll(data_json.T_num, T_num, ONE)
          /\ WrittenAll(data_json.err_small, err_small, ONE)
          /\ WrittenAll(data_json.err_series, err_series, ONE)
    /\ Past("write_report") =>
          \A k \in 1..Len(report_md.rows) :
             /\ RenderedAs(report_md.rows[k][1], theta_deg[k], DEG)
             /\ RenderedAs(report_md.rows[k][Len(report_md.rows[k]) - 2], T_num[k], ONE)


\* the steps of main that write a result: the data file, the report, the summary
WriteSteps == {"write_data", "write_report", "write_summary"}

\* the current call of main has written, or begun to write, a result
Emitting == \E name \in WriteSteps : Took(name)

\* the exact period of every angle of the grid has been computed, and is a number
AllAnglesComputed ==
    /\ i = 0
    /\ Len(T_num) = sample_count
    /\ \A k \in 1..sample_count :
          /\ T_num[k] # NaN
          /\ T_num[k] = TNum(script, theta_rad[k], integral_steps)

\* C12: a call of main writes its data file, its report and its summary only
\* after the exact period of every one of the sample_count angles has been
\* computed successfully; when the evaluation of one angle fails (an exception,
\* or a value that is not a number) the call writes no result at all.
C12_OutputsAfterAllAngles == Emitting => AllAnglesComputed


\* the series column as the per-angle loop finds it
SeriesAtLoopEntry ==
    [k \in 1..sample_count |->
        IF script \in {"sonnet", "kimi"} THEN 0
        ELSE compute_T_series(T0, theta_rad[k])]

\* the exact periods the body finds when the angles before it are stored
SeenAfter(done) ==
    [j \in 1..sample_count |-> IF j <= Len(done) THEN done[j] ELSE 0]

\* the exact periods the sequential loop computes for the angles 1..k, in turn
RECURSIVE sequential(_)
sequential(k) ==
    IF k = 0 THEN <<>>
    ELSE LET done == sequential(k - 1)
         IN  Append(done, estimate(SeenAfter(done), k))

\* the cell of angle k holds what the sequential loop leaves in it
AsSequential(k) ==
    LET T_num_val == sequential(sample_count)[k]
        T_series_val == compute_T_series(T0, theta_rad[k])
    IN  /\ T_num[k] = T_num_val
        /\ T_series[k] = T_series_val
        /\ script = "kimi" =>
              /\ T0_array[k] = T0
              /\ err_small[k] = compute_errors(T0, T_num_val)
              /\ err_series[k] = compute_errors(T_series_val, T_num_val)

\* the cell of angle k is as it was when the loop was entered
Untouched(k) ==
    /\ T_num[k] = 0
    /\ T_series[k] = SeriesAtLoopEntry[k]
    /\ script = "kimi" => T0_array[k] = 0 /\ err_small[k] = 0 /\ err_series[k] = 0

\* C13: when the bodies of the per-angle loop run in any order and interleaved,
\* each storing at the index of its angle, the estimate of an angle touches no
\* cell of another angle, and every stored cell, and so in the end every output
\* sequence, holds what the sequential loop leaves in it.
C13_AnyOrderSameSequences ==
    \A k \in 1..sample_count : IF k \in Stored THEN AsSequential(k) ELSE Untouched(k)

\* all angles are stored, and they were not stored in the order of the grid, and
\* a body was entered while another had not yet stored
C13_Witness ==
    /\ Len(order) = sample_count
    /\ order[1] = sample_count
    /\ order[2] = 1
    /\ T_num[1] # T_num[sample_count]


\* the evaluator has been called with the two angles of a pair
EvaluatedPair == trace = <<"evaluate", "evaluate">>

\* C14: the exact-period evaluator of every script is strictly increasing in the
\* initial angle: called with two angles theta1 < theta2 of (0, 90) degrees, it
\* returns a strictly smaller period for theta1 than for theta2.
C14_ExactPeriodIncreasing ==
    (EvaluatedPair /\ theta_rad[1] < theta_rad[2]) => T_num[1] < T_num[2]


\* the grid lies between 5 and 60 degrees, and the errors of its angles are there
ErrorsOfUsualGrid ==
    /\ ErrorsComputed
    /\ 5 * DEG <= theta_low_deg
    /\ theta_low_deg < theta_high_deg
    /\ theta_high_deg <= 60 * DEG

\* C15: at every angle of a grid between 5 and 60 degrees the relative error of
\* the series approximation is strictly smaller than the relative error of the
\* small-angle approximation.
C15_SeriesBelowSmall ==
    ErrorsOfUsualGrid => \A k \in 1..Len(err_small) : err_series[k] < err_small[k]

\* C16: over a grid between 5 and 60 degrees the relative error of the
\* small-angle approximation does not decrease from an angle to the next one.
C16_SmallErrorGrows ==
    ErrorsOfUsualGrid =>
        \A k \in 1..(Len(err_small) - 1) : err_small[k] <= err_small[k + 1]


\* the Simpson routine has been called with the unit integrand of node i
SimpsonApplied == trace = <<"simpson">>

\* the weight of node j in the composite Simpson rule with n steps
SimpsonWeight(j, n) == IF j = 0 \/ j = n THEN 1 ELSE IF j % 2 = 1 THEN 4 ELSE 2

\* the step width of the call
WidthOfCall == IDiv(theta_rad[2] - theta_rad[1], integral_steps)

\* C17: for every even step count the Simpson routine of every script (one
\* loop, two loops, slice sum, weight array) counts the value at node i exactly
\* with the weight of the composite rule, 1 at the nodes 0 and n, 4 at the odd
\* and 2 at the even interior nodes, and scales the sum by h / 3; the
\* routines so give every node the same weight.
C17_SimpsonWeights ==
    SimpsonApplied =>
        T_num[1] = SimpsonWeight(i, integral_steps) * (WidthOfCall \div 3)

\* the weight-array routine has been called for an even interior node, and the
\* slice-sum routine for the last node
C17_Witness ==
    /\ SimpsonApplied
    /\ integral_steps = 6
    /\ \/ script = "sonnet" /\ i = 4 /\ T_num[1] = 2 * (WidthOfCall \div 3)
       \/ script = "gemini" /\ i = 6 /\ T_num[1] = WidthOfCall \div 3


\* the scripts that integrate over theta, with the singular endpoint theta0
StrategyA == {"gpt5", "gemini", "glm"}

\* an evaluator that integrates over theta has been called with one angle
EvaluatedOverTheta == trace = <<"evaluate">> /\ script \in StrategyA

\* the angle of node j of the call
NodeAngle(j) ==
    IF j = integral_steps THEN theta_rad[1] ELSE j * IDiv(theta_rad[1], integral_steps)

\* 2 * max(cos(theta) - cos(theta0), epsilon) at node j of the call
ClampedArgument(j) == 2 * Max2(FCos(NodeAngle(j)) - FCos(theta_rad[1]), epsilon)

\* C18: an evaluator that integrates over theta takes, at every node and at the
\* endpoint theta = theta0 too, the value 1 / sqrt(2 * max(cos(theta) -
\* cos(theta0), epsilon)): the argument of the square root is never below
\* 2 * epsilon, and the endpoint contributes 1 / sqrt(2 * epsilon).
C18_ClampedAtEveryNode ==
    EvaluatedOverTheta =>
        /\ \A j \in 0..integral_steps :
              /\ ClampedArgument(j) >= 2 * epsilon
              /\ node_value(script, theta_rad[1], integral_steps, j)
                    = FDiv(ONE, FSqrt(ClampedArgument(j)))
        /\ node_value(script, theta_rad[1], integral_steps, integral_steps)
              = FDiv(ONE, FSqrt(2 * epsilon))


\* kimi: the angles of the grid whose exact period the loop has computed
AnglesIntegrated == IF script = "kimi" /\ Took("loop") THEN 1..Len(T_num) ELSE {}

\* kimi, sonnet: the modulus k = sin(theta0 / 2) of angle j of the grid
Modulus(j) == FSin(theta_rad[j] \div 2)

\* C19: in the substituted integral, with k = sin(theta0 / 2), the quantity
\* 1 - k^2 sin^2(phi) is strictly positive at every quadrature node phi of
\* [0, pi/2] for every angle of a validated grid, so the integrand is finite at
\* every node (it lies between 1 and 2) without any regularization.
C19_RadicandPositive ==
    \A j \in AnglesIntegrated : \A phi \in Nodes(0, PI \div 2, integral_steps) :
        /\ radicand(phi, Modulus(j)) > 0
        /\ integrand(phi, Modulus(j)) >= ONE
        /\ integrand(phi, Modulus(j)) < 2 * ONE

\* the loop has integrated an angle of 60 degrees: at the node pi/2 the
\* radicand is about 3/4
C19_Witness ==
    /\ AnglesIntegrated # {}
    /\ \E j \in AnglesIntegrated :
          /\ theta_deg[j] = 60 * DEG
          /\ radicand(PI \div 2, Modulus(j)) < (4 * ONE) \div 5
          /\ radicand(PI \div 2, Modulus(j)) > (7 * ONE) \div 10


\* the AGM loop has been left
AGMLeft == agm_state # Nothing /\ agm_state.left # "running"

\* C20: for every angle of a configuration the validation accepts, the AGM loop
\* started from a = 1, b = sqrt(1 - k^2) is left by its convergence test
\* |a_new - a| < tolerance and not by running out of its 25 passes, and the
\* value of a it leaves, the mean of K(k) = pi / (2 * mean), is within the
\* tolerance of the last arithmetic mean computed.
C20_AGMLeftByConvergence ==
    AGMLeft =>
        /\ agm_state.left = "break"
        /\ agm_state.iterations <= AGM_ITERATIONS
        /\ Abs(agm_state.a_new - agm_state.a) < AGM_TOLERANCE


\* C21: the small-angle period is computed from the length and the gravity
\* only, and the T0 sequence of the data file holds that value at every one of
\* its sample_count positions, whatever the angle of the position.
C21_SmallPeriodBroadcast ==
    Past("write_data") =>
        /\ Len(data_json.T0) = sample_count
        /\ \A k \in 1..Len(data_json.T0) : WrittenAs(data_json.T0[k], compute_T0, ONE)


\* the validation of the current run has accepted its configuration
Accepted == Past("validate")

\* C22: every configuration the validation accepts has a strictly positive
\* integration step count, so the Simpson routine a run enters divides b - a by
\* an even n >= 2: it raises nothing, its width h is a number with
\* 0 <= n * h <= b - a, and its integrand is called at n + 1 points.
C22_AcceptedStepsPositive ==
    /\ Accepted => integral_steps > 0 /\ integral_steps % 2 = 0
    /\ entered # Nothing =>
          /\ entered.raised = "none"
          /\ entered.n >= 2 /\ entered.n % 2 = 0
          /\ entered.h # Inf
          /\ entered.h >= 0 /\ entered.n * entered.h <= FirstUpperLimit(script)
          /\ entered.points = entered.n + 1


\* the steps of main that write a result in the script that runs
OwnWriteSteps == {name \in WriteSteps : \E j \in 1..Len(Program(script)) : Program(script)[j] = name}

\* C23: for every configuration the validation accepts (every sample_count >= 4
\* among them) the run comes to its end with its data file, its report and its
\* summary written: no step raises once the configuration is accepted, so none
\* fails after the data file is written.
C23_AcceptedRunCompletes ==
    Accepted =>
        /\ ~Failed
        /\ Done => \A name \in OwnWriteSteps : Past(name)


\* kimi: the summary file is written
StrictSummaryWritten == script = "kimi" /\ Past("write_summary")

\* C24: the summary of the strict script records a verification as PASS, and
\* the status as success with strict verification, only if the check of that
\* name run earlier in the same call passed: T_num at 1 degree within 1% of T0
\* for the small-angle test, T_num(60 degrees) / T0 strictly between 1.05 and
\* 1.10 for the large-angle test.
C24_PassOnlyIfChecked ==
    StrictSummaryWritten =>
        /\ summary_out.small_angle_test = "PASS" => verification.small_angle_test
        /\ summary_out.large_angle_test = "PASS" => verification.large_angle_test
        /\ summary_out.status = "success_with_strict_verification" =>
              verification.small_angle_test /\ verification.large_angle_test


\* the calls of a source made so far, in the order they were made
Attempts == fetcher.attempts

\* the calls made for item k of the portfolio list, as positions of Attempts
CallsFor(k) == {j \in 1..Len(Attempts) : Attempts[j].item = k}

\* fetch_single_ticker_data has called, for item k, every source it calls
SourcesCalled(k) ==
    \/ k < fetcher.item
    \/ k = fetcher.item /\ fetcher.stage \in {"rest", "KeyError"}

\* entry j of the fetch log is the entry of call j: its ticker, its source, its
\* outcome
LoggedCall(j) ==
    /\ fetch_log[j].ticker = portfolio[Attempts[j].item].ticker
    /\ Attempts[j].source = "yahoo" => fetch_log[j].source = "Yahoo Finance API"
    /\ Attempts[j].source = "alpha" =>
          fetch_log[j].source \in {"Alpha Vantage (Mock)", "Alpha Vantage"}
    /\ (fetch_log[j].status = "success") <=> (Attempts[j].status = "success")

\* for item k the first source is called first and once, and the fallback, once
\* and right after it, exactly when the first did not return status success
PrimaryThenFallback(k) ==
    \E m \in CallsFor(k) :
        /\ Attempts[m].source = "yahoo"
        /\ \A j \in CallsFor(k) \ {m} : j = m + 1 /\ Attempts[j].source = "alpha"
        /\ (CallsFor(k) # {m}) <=> (Attempts[m].status # "success")

\* C25: in the portfolio data fetcher, for every ticker the primary source is
\* attempted first and exactly once, the fallback is attempted if and only if
\* the primary attempt did not end with status success, and every attempt
\* appends exactly one entry to the fetch log, in the order of the attempts.
C25_PrimaryThenFallbackLogged ==
    fetcher # Nothing =>
        /\ Len(fetch_log) = Len(Attempts)
        /\ \A j \in 1..Len(Attempts) : LoggedCall(j)
        /\ \A k \in 1..Len(portfolio) :
              IF SourcesCalled(k) THEN PrimaryThenFallback(k)
              ELSE \A j \in CallsFor(k) :
                      Attempts[j].source = "yahoo" /\ Attempts[j].status # "success"

\* a portfolio has been fetched, one item from the first source alone and one
\* through the fallback: the log holds the three calls
C25_Witness ==
    /\ fetcher # Nothing
    /\ fetcher.stage = "returned"
    /\ Len(fetch_log) = 3
    /\ \E k \in 1..Len(portfolio) : Cardinality(CallsFor(k)) = 1
    /\ \E k \in 1..Len(portfolio) : Cardinality(CallsFor(k)) = 2


\* the items of the portfolio list the loop of fetch_portfolio_data has processed
Processed == fetcher.item - 1

\* the two counters of results['summary'] sum to the items processed so far, and
\* to total_tickers once the list is processed
CountersSumToProcessed ==
    results # Nothing =>
        /\ results.summary.successful_fetches + results.summary.failed_fetches
              = Processed
        /\ results.summary.total_tickers = Len(portfolio)
        /\ fetcher.stage = "returned" =>
              results.summary.successful_fetches + results.summary.failed_fetches
                 = results.summary.total_tickers

\* an item that is processed moves exactly one of the two counters, by one, and
\* nothing else moves them
OneCounterMoves ==
    results # Nothing =>
        IF fetcher'.item = fetcher.item
        THEN results'.summary = results.summary
        ELSE \/ results'.summary =
                   [results.summary EXCEPT !.successful_fetches = @ + 1]
             \/ results'.summary =
                   [results.summary EXCEPT !.failed_fetches = @ + 1]

\* C26: after fetch_portfolio_data has processed a portfolio list,
\* successful_fetches + failed_fetches equals total_tickers; after each
\* processed item the two counters sum to the number of items processed so far,
\* and each item increments exactly one of the two counters.
C26_CountersPartitionItems == []CountersSumToProcessed /\ [][OneCounterMoves]_vars

\* a list of three items has been processed, with fetches of both outcomes
C26_Witness ==
    /\ fetcher # Nothing
    /\ fetcher.stage = "returned"
    /\ results.summary.total_tickers = MaxItems
    /\ results.summary.successful_fetches > 0
    /\ results.summary.failed_fetches > 0


\* validate_portfolio has returned
Validated == validation_result # Nothing

\* the checks of the result that report errors, and those that report warnings
ErrorsOf(r) == {r.errors[j].check : j \in 1..Len(r.errors)}

WarningsOf(r) == {r.warnings[j].check : j \in 1..Len(r.warnings)}

\* C27: the portfolio validator returns valid = false if and only if its
\* errors list is non-empty: the checks that append an error (weight sum out of
\* tolerance, duplicate ticker, non-positive weight) clear valid, and the
\* checks that only append a warning (single-name weight above the maximum,
\* cash-like weight below the minimum) leave it.
C27_InvalidIffErrors ==
    Validated =>
        /\ (validation_result.valid = FALSE) <=> (validation_result.errors # <<>>)
        /\ ErrorsOf(validation_result) \subseteq {"sum", "duplicates", "weight"}
        /\ WarningsOf(validation_result) \subseteq {"sum", "single name", "cash-like"}

\* a portfolio is returned invalid for its duplicate tickers alone, with a
\* warning of the weight sum and one of a single-name weight
C27_Witness ==
    /\ Validated
    /\ ~validation_result.valid
    /\ ErrorsOf(validation_result) = {"duplicates"}
    /\ WarningsOf(validation_result) = {"sum", "single name"}


\* generate_optimization_proposals has been called
ProposalsCalled == proposals # Nothing

\* the new weights of a plan are those of the tickers of the current portfolio
\* and sum to 1, up to the rounding of one division per ticker
PlanOverPortfolio(plan) ==
    /\ DOMAIN plan.new_weights = DOMAIN current_portfolio
    /\ Abs(total(plan.new_weights, DOMAIN plan.new_weights) - WEIGHT_ONE)
          <= Cardinality(DOMAIN current_portfolio)
    /\ plan.changes \subseteq DOMAIN current_portfolio

\* C28: for any current portfolio generate_optimization_proposals completes
\* without an error, each plan's new_weights has exactly the tickers of the
\* current portfolio and sums to 1 after the normalization, and no adjustment
\* refers to a ticker that the portfolio does not hold.
C28_ProposalsForAnyPortfolio ==
    ProposalsCalled =>
        /\ proposals.raised = "none"
        /\ PlanOverPortfolio(proposals.plan_a_conservative)
        /\ PlanOverPortfolio(proposals.plan_b_aggressive)


\* the Simpson routine has been called with a constant integrand
ConstantApplied == trace = <<"constant">>

\* C29: for every even step count n >= 2 the weights a Simpson routine gives
\* the n + 1 nodes sum to 3n (the integral of the constant 1 with the step
\* width 3 is 3n), so the Simpson integral of a constant c over [a, b] is
\* c * (b - a) for the routine of every script.
C29_ConstantIntegratedExactly ==
    ConstantApplied =>
        /\ T_num[1] = FMul(integrand_c, theta_rad[2] - theta_rad[1])
        /\ integrand_c = ONE /\ WidthOfCall = 3 * ONE =>
              T_num[1] = 3 * integral_steps * ONE

\* the weight-array routine has summed its nine weights to 24
C29_Witness ==
    /\ ConstantApplied
    /\ script = "sonnet"
    /\ integral_steps = 8
    /\ integrand_c = ONE
    /\ WidthOfCall = 3 * ONE
    /\ T_num[1] = 24 * ONE


\* the loop runs, or has run, for a modulus below 1
LoopBelowOne == agm_state # Nothing /\ Modulus(i) < ONE

\* 0 < b <= a <= 1, and a, the mean the loop leaves, is at least the first b
MeansOrdered ==
    LoopBelowOne =>
        /\ 0 < agm_state.b
        /\ agm_state.b <= agm_state.a
        /\ agm_state.a <= FINE
        /\ agm_start(theta_rad[i]).b <= agm_state.a

\* a pass does not raise a and does not lower b
MeansApproach ==
    LoopBelowOne => agm_state'.a <= agm_state.a /\ agm_state'.b >= agm_state.b

\* C30, as stated: for a modulus 0 <= k < 1 the AGM loop keeps 0 < b <= a <= 1 after
\* every pass, a pass never raises a and never lowers b, and so the mean the
\* loop leaves lies between sqrt(1 - k^2) and 1 and is not zero.
C30_MeansOrderedAndApproach == []MeansOrdered /\ [][MeansApproach]_vars


\* 0 < b and a <= 1, b exceeds a by at most the unit the two means are rounded
\* to, and a, the mean the loop leaves, is at least the first b
MeansOrderedToAUnit ==
    LoopBelowOne =>
        /\ 0 < agm_state.b
        /\ agm_state.b <= agm_state.a + 1
        /\ agm_state.a <= FINE
        /\ agm_start(theta_rad[i]).b <= agm_state.a

\* C30, as amended: for a modulus 0 <= k < 1 the AGM loop keeps 0 < b and
\* a <= 1 after every pass and b <= a up to one unit of rounding, a pass never
\* raises a and never lowers b, and so the mean the loop leaves lies between
\* sqrt(1 - k^2) and 1 and is not zero.
C30_MeansOrderedToAUnit == []MeansOrderedToAUnit /\ [][MeansApproach]_vars

\* three passes have brought the means together, and the rounded root is one
\* unit above the rounded half sum
C30_Witness ==
    /\ LoopBelowOne
    /\ agm_state.iterations = 3
    /\ agm_state.left = "running"
    /\ agm_state.b = agm_state.a + 1
    /\ agm_state.a < FINE
    /\ agm_state.b > agm_start(theta_rad[i]).b

====
